---------------------------- MODULE Spec2Model ----------------------------
(***************************************************************************)
(* A model of the qp-mermaid compiler pipeline of murr2k/qp:               *)
(*   MermaidPreprocessor, QpMermaidParser, HierarchicalStateParser and     *)
(*   StateMachineValidator.                                                *)
(* Text is modelled as TLA+ strings; a character is a string of length 1.  *)
(* An optional value (a TypeScript `x?: T`) is <<>> when absent and <<v>>  *)
(* when present.  State objects live in a pool and are referred to by      *)
(* their index, so that the parser's stack and the model's tree can share  *)
(* them the way the TypeScript objects are shared by reference.            *)
(***************************************************************************)
EXTENDS Integers, Sequences, FiniteSets, TLC

VARIABLES
    stateMachine,   \* the StateMachine object (parser's field / stage argument)
    stateStack,     \* QpMermaidParser.stateStack: pool indices, innermost last
    parserLog,      \* the sources parsed by this parser instance, in call order
    stateMap,       \* HierarchicalStateParser.stateMap: key -> pool index
    resolveArg,     \* <<>> or <<model>>: the argument of the last resolver call
    resolveFirst,   \* <<>> or <<model>>: what the first resolver call returned
    resolveRuns,    \* the number of resolver calls on the model, counted up to 2
    errors,         \* StateMachineValidator.errors
    visitedStates,  \* StateMachineValidator.visitedStates
    validated,      \* <<>> or <<model>>: the argument of the last validate call
    raised,         \* <<>> or <<error name>>: what the last validate call threw
    metadata,       \* MermaidPreprocessor.metadata: ordered list of <<key, value>>
    stateCounter,   \* MermaidPreprocessor.stateCounter
    preLog,         \* the last two texts preprocessed by this instance, in order
    preResult,      \* <<>> or <<PreprocessResult>> of the last preprocess call
    lcaArgs,        \* <<fromPath, toPath>> handed to the LCA operations
    lcaResult       \* <<>> or <<result of the last LCA operation>>

vars == <<stateMachine, stateStack, parserLog, stateMap, resolveArg, resolveFirst,
          resolveRuns, errors, visitedStates, validated, raised, metadata, stateCounter,
          preLog, preResult, lcaArgs, lcaResult>>

parserVars == <<stateStack, parserLog>>
resolverVars == <<stateMap, resolveArg, resolveFirst, resolveRuns>>
validatorVars == <<errors, visitedStates, validated, raised>>
preprocessorVars == <<metadata, stateCounter, preLog, preResult>>
lcaVars == <<lcaArgs, lcaResult>>

---------------------------------------------------------------------------
(* Bounds of the model *)

MaxPathDepth == 3

\* the number of states of the models handed to the resolver
MaxStates == 4

\* the number of states of the models handed to the validator
MaxVStates == 3

\* the number of parse calls on one parser instance
MaxParses == 2

\* the number of lines of the texts handed to the preprocessor
MaxPreLines == 2

\* the number of diagram lines of the texts handed to a fresh parser
MaxParserLines == 3

\* the number of states of the machine a resolver instance resolved before
MaxPriorStates == 2

\* the number of states of the machine a used resolver instance resolves next
MaxNextStates == 3

---------------------------------------------------------------------------
(* JavaScript string primitives *)

None == <<>>
Some(v) == <<v>>

\* a const declaration, const x = v; ..., written Bind([x \in {v} |-> ...]):
\* the value of the function at the one element of its domain
Bind(f) == f[CHOOSE v \in DOMAIN f : TRUE]

Min(a, b) == IF a < b THEN a ELSE b
Max(a, b) == IF a < b THEN b ELSE a

CharAt(s, i) == SubSeq(s, i, i)

Alphabet == "ABCDEFGHIJKLMNOPQRSTUVWXYZabcdefghijklmnopqrstuvwxyz0123456789_"

\* the characters the regular-expression class \w matches
WordChars == {CharAt(Alphabet, i) : i \in 1..Len(Alphabet)}

\* the characters the regular-expression class \s matches (of those that occur)
SpaceChars == {" ", "\t"}

\* String.prototype.startsWith
startsWith(s, p) == Len(p) <= Len(s) /\ SubSeq(s, 1, Len(p)) = p

\* String.prototype.endsWith
endsWith(s, p) == Len(p) <= Len(s) /\ SubSeq(s, Len(s) - Len(p) + 1, Len(s)) = p

\* String.prototype.indexOf, 1-based; 0 when p does not occur in s
indexOf(s, p) ==
    Bind([hits \in {{i \in 1..(Len(s) - Len(p) + 1) : SubSeq(s, i, i + Len(p) - 1) = p}} |->
         IF hits = {} THEN 0 ELSE CHOOSE i \in hits : \A j \in hits : i <= j])

\* String.prototype.includes
includes(s, p) == indexOf(s, p) # 0

\* String.prototype.trim
trim(s) ==
    Bind([keep \in {{i \in 1..Len(s) : CharAt(s, i) \notin SpaceChars}} |->
         IF keep = {} THEN ""
         ELSE SubSeq(s, CHOOSE i \in keep : \A j \in keep : i <= j,
                        CHOOSE i \in keep : \A j \in keep : j <= i)])

\* String.prototype.split for a one-character separator
RECURSIVE split(_, _)
split(s, sep) ==
    Bind([i \in {indexOf(s, sep)} |->
         IF i = 0 THEN <<s>>
         ELSE <<SubSeq(s, 1, i - 1)>> \o split(SubSeq(s, i + 1, Len(s)), sep)])

\* Array.prototype.join
RECURSIVE join(_, _)
join(parts, sep) ==
    IF Len(parts) = 0 THEN ""
    ELSE IF Len(parts) = 1 THEN parts[1]
    ELSE parts[1] \o sep \o join(Tail(parts), sep)

\* Array.prototype.slice(0, n)
slice(parts, n) == SubSeq(parts, 1, Min(n, Len(parts)))

\* the template `${parentPath}.${name}` guarded by `parentPath ?`
qualify(parentPath, name) ==
    IF parentPath # "" THEN parentPath \o "." \o name ELSE name

---------------------------------------------------------------------------
(* HierarchicalStateParser: LCA and transition sequences *)

\* findLCA's loop without its `break`: later equal segments still count
RECURSIVE findLCALoopNoBreak(_, _, _, _)
findLCALoopNoBreak(path1Parts, path2Parts, i, commonPath) ==
    IF i > Min(Len(path1Parts), Len(path2Parts)) THEN commonPath
    ELSE findLCALoopNoBreak(path1Parts, path2Parts, i + 1,
             IF path1Parts[i] = path2Parts[i]
             THEN (IF commonPath # "" THEN commonPath \o "." \o path1Parts[i]
                   ELSE path1Parts[i])
             ELSE commonPath)

\* findLCA's loop from index i (1-based) with the accumulated commonPath
RECURSIVE findLCALoop(_, _, _, _)
findLCALoop(path1Parts, path2Parts, i, commonPath) ==
    IF i > Min(Len(path1Parts), Len(path2Parts)) THEN commonPath
    ELSE IF path1Parts[i] = path2Parts[i]
         THEN findLCALoop(path1Parts, path2Parts, i + 1,
                          IF commonPath # "" THEN commonPath \o "." \o path1Parts[i]
                          ELSE path1Parts[i])
         ELSE commonPath

findLCA(state1Path, state2Path) ==
    findLCALoop(split(state1Path, "."), split(state2Path, "."), 1, "")

\* the exit loop: push currentPath, drop its last segment
RECURSIVE exitLoop(_, _)
exitLoop(currentPath, lca) ==
    IF currentPath # "" /\ currentPath # lca
    THEN LET parts == split(currentPath, ".")
         IN  <<currentPath>> \o exitLoop(join(SubSeq(parts, 1, Len(parts) - 1), "."), lca)
    ELSE <<>>

\* calculateTransitionSequence with the entry loop starting one segment early,
\* at the LCA itself
calculateTransitionSequenceFromLCA(fromPath, toPath) ==
    LET lca == findLCA(fromPath, toPath)
        targetParts == split(toPath, ".")
        lcaParts == IF lca # "" THEN split(lca, ".") ELSE <<>>
        first == Max(1, Len(lcaParts))
    IN  [exitSequence |-> exitLoop(fromPath, lca),
         entrySequence |-> [j \in 1..Max(0, Len(targetParts) - first + 1) |->
                               join(slice(targetParts, first + j - 1), ".")],
         lca |-> lca]

calculateTransitionSequence(fromPath, toPath) ==
    LET lca == findLCA(fromPath, toPath)
        targetParts == split(toPath, ".")
        lcaParts == IF lca # "" THEN split(lca, ".") ELSE <<>>
    IN  [exitSequence |-> exitLoop(fromPath, lca),
         entrySequence |-> [j \in 1..Max(0, Len(targetParts) - Len(lcaParts)) |->
                               join(slice(targetParts, Len(lcaParts) + j), ".")],
         lca |-> lca]

---------------------------------------------------------------------------
(* Regular-expression primitives *)

\* whether the literal p occurs in s at position i
at(s, i, p) == i >= 1 /\ i + Len(p) - 1 <= Len(s) /\ SubSeq(s, i, i + Len(p) - 1) = p

\* the first position >= i whose character is not in class (Len(s)+1 if none):
\* where a greedy class* that starts at i stops
scan(s, i, class) ==
    Bind([stops \in {{j \in i..Len(s) : CharAt(s, j) \notin class}} |->
         IF stops = {} THEN Max(i, Len(s) + 1)
         ELSE CHOOSE j \in stops : \A k \in stops : j <= k])

\* the first position >= i whose character is in stopChars (Len(s)+1 if none)
scanTo(s, i, stopChars) ==
    Bind([stops \in {{j \in i..Len(s) : CharAt(s, j) \in stopChars}} |->
         IF stops = {} THEN Max(i, Len(s) + 1)
         ELSE CHOOSE j \in stops : \A k \in stops : j <= k])

skipSpaces(s, i) == scan(s, i, SpaceChars)
wordEnd(s, i) == scan(s, i, WordChars)

\* the smallest element of a non-empty set of positions (leftmost match)
leftmost(S) == CHOOSE i \in S : \A j \in S : i <= j

---------------------------------------------------------------------------
(* The StateMachine model: src/types/stateMachine.ts *)

\* interface Transition
Transition(event, target, guard, action, isInternal) ==
    [event |-> event, target |-> target, guard |-> guard, action |-> action,
     isInternal |-> isInternal]

Q_INIT_SIG == "@Q_INIT_SIG"

\* the object literal { event: '@Q_INIT_SIG', target: t }
InitTransition(target) == Transition(Q_INIT_SIG, target, None, None, None)

\* interface State, as created by findOrCreateState
NewState(name) ==
    [name |-> name, parent |-> None, entryActions |-> <<>>, exitActions |-> <<>>,
     transitions |-> <<>>, children |-> <<>>, isInitial |-> None,
     initialTransition |-> None]

\* interface StateMachine, as created by QpMermaidParser's constructor;
\* pool holds the State objects, states/children hold indices into it
NewStateMachine ==
    [name |-> "StateMachine", type |-> "QActive", priority |-> None,
     stackSize |-> None, events |-> <<>>, states |-> <<>>, initialState |-> "",
     dataMembers |-> <<>>, pool |-> <<>>]

\* the full dotted path of every pool state, by walking the ownership tree
RECURSIVE pathsFrom(_, _, _)
pathsFrom(pool, idxs, parentPath) ==
    IF Len(idxs) = 0 THEN <<>>
    ELSE LET s == idxs[1]
             fullPath == qualify(parentPath, pool[s].name)
         IN  <<<<s, fullPath>>>> \o pathsFrom(pool, pool[s].children, fullPath)
                                \o pathsFrom(pool, Tail(idxs), parentPath)

\* the states in the order a recursive walk of the tree visits them, with paths
walk(sm) == pathsFrom(sm.pool, sm.states, "")

---------------------------------------------------------------------------
(* QpMermaidParser *)

\* findState: the first state named name in a depth-first walk; 0 if none
RECURSIVE searchInStates(_, _, _)
searchInStates(pool, idxs, name) ==
    IF Len(idxs) = 0 THEN 0
    ELSE Bind([s \in {idxs[1]} |->
              IF pool[s].name = name THEN s
              ELSE Bind([found \in {searchInStates(pool, pool[s].children, name)} |->
                        IF found # 0 THEN found
                        ELSE searchInStates(pool, Tail(idxs), name)])])

\* a findState that finds nothing
parserFindStateNever(sm, name) == 0

\* findState
parserFindState(sm, name) == searchInStates(sm.pool, sm.states, name)

\* findOrCreateState: the parser state p = [sm, stack]; returns [sm, state]
findOrCreateState(sm, stack, name) ==
    Bind([state \in {parserFindState(sm, name)} |->
         IF state # 0 THEN [sm |-> sm, state |-> state]
         ELSE Bind([new \in {Len(sm.pool) + 1} |->
                   IF Len(stack) > 0
                   THEN Bind([parent \in {stack[Len(stack)]} |->
                        Bind([pool1 \in {Append(sm.pool, [NewState(name) EXCEPT
                                                 !.parent = Some(sm.pool[parent].name)])} |->
                             [sm |-> [sm EXCEPT !.pool =
                                        [pool1 EXCEPT ![parent].children = Append(@, new)]],
                              state |-> new]])])
                   ELSE [sm |-> [sm EXCEPT !.pool = Append(@, NewState(name)),
                                           !.states = Append(@, new)],
                         state |-> new]])])

\* /\[\*\]\s*-->\s*(\w+)(?:\s*:\s*(.+))?/ : <<>> or <<match[1]>>
matchInitial(line) ==
    LET target(i) ==
            Bind([j \in {skipSpaces(line, i + 3)} |->
            Bind([k \in {skipSpaces(line, j + 3)} |->
            Bind([e \in {wordEnd(line, k)} |->
                 IF at(line, j, "-->") /\ e > k
                 THEN Some(SubSeq(line, k, e - 1)) ELSE None])])])
    IN  Bind([hits \in {{i \in 1..Len(line) : at(line, i, "[*]") /\ target(i) # None}} |->
             IF hits = {} THEN None ELSE target(leftmost(hits))])

\* /state\s+(\w+)\s*{/ : <<>> or <<match[1]>>
matchStateOpen(line) ==
    LET name(i) ==
            Bind([j \in {skipSpaces(line, i + 5)} |->
            Bind([k \in {wordEnd(line, j)} |->
                 IF j > i + 5 /\ k > j /\ at(line, skipSpaces(line, k), "{")
                 THEN Some(SubSeq(line, j, k - 1)) ELSE None])])
    IN  Bind([hits \in {{i \in 1..Len(line) : at(line, i, "state") /\ name(i) # None}} |->
             IF hits = {} THEN None ELSE name(leftmost(hits))])

\* /:\s*(\w+)\s*\/\s*(.+)/ : <<>> or <<[event, action]>>
matchInternal(line) ==
    LET m(i) ==
            Bind([j \in {skipSpaces(line, i + 1)} |->
            Bind([k \in {wordEnd(line, j)} |->
            Bind([slash \in {skipSpaces(line, k)} |->
            Bind([a \in {skipSpaces(line, slash + 1)} |->
                 IF k > j /\ at(line, slash, "/") /\ slash < Len(line)
                 THEN \* \s* gives a blank back to (.+) when nothing else is left
                      Some([event |-> SubSeq(line, j, k - 1),
                            action |-> SubSeq(line, IF a > Len(line) THEN Len(line) ELSE a,
                                              Len(line))])
                 ELSE None])])])])
    IN  Bind([hits \in {{i \in 1..Len(line) : at(line, i, ":") /\ m(i) # None}} |->
             IF hits = {} THEN None ELSE m(leftmost(hits))])

\* /(\w+)\s*-->\s*(\w+)(?:\s*:\s*(\w+)(?:\s*\/\s*([^[]+))?(?:\s*\[([^\]]+)\])?)?/
\* : <<>> or <<[source, target, event, action, guard]>>, the optional
\* captures <<>> when their group did not take part in the match
matchTransition(line) ==
    LET \* (?:\s*\[([^\]]+)\])? tried at position p
        guardAt(p) ==
            Bind([b \in {skipSpaces(line, p)} |->
            Bind([e \in {scanTo(line, b + 1, {"]"})} |->
                 IF at(line, b, "[") /\ e > b + 1 /\ e <= Len(line)
                 THEN Some(SubSeq(line, b + 1, e - 1)) ELSE None])])
        \* (?:\s*\/\s*([^[]+))? tried at position p: <<>> or <<[text, next]>>
        actionAt(p) ==
            Bind([slash \in {skipSpaces(line, p)} |->
            Bind([a \in {skipSpaces(line, slash + 1)} |->
            \* [^[]+ needs one character: \s* gives its last blank back
            Bind([from \in {IF a <= Len(line) /\ CharAt(line, a) # "[" THEN a
                 ELSE IF a > slash + 1 THEN a - 1 ELSE 0} |->
            Bind([next \in {IF from = 0 THEN 0 ELSE scanTo(line, from, {"["})} |->
                 IF at(line, slash, "/") /\ from # 0
                 THEN Some([text |-> SubSeq(line, from, next - 1), next |-> next])
                 ELSE None])])])])
        \* (?:\s*:\s*(\w+) ... )? tried at position p
        labelAt(p) ==
            Bind([colon \in {skipSpaces(line, p)} |->
            Bind([j \in {skipSpaces(line, colon + 1)} |->
            Bind([k \in {wordEnd(line, j)} |->
                 IF at(line, colon, ":") /\ k > j
                 THEN Bind([act \in {actionAt(k)} |->
                           [event |-> Some(SubSeq(line, j, k - 1)),
                            action |-> IF act = None THEN None ELSE Some(act[1].text),
                            guard |-> guardAt(IF act = None THEN k ELSE act[1].next)]])
                 ELSE [event |-> None, action |-> None, guard |-> None]])])])
        m(i) ==
            Bind([e1 \in {wordEnd(line, i)} |->
            Bind([arrow \in {skipSpaces(line, e1)} |->
            Bind([t \in {skipSpaces(line, arrow + 3)} |->
            Bind([e2 \in {wordEnd(line, t)} |->
                 IF e1 > i /\ at(line, arrow, "-->") /\ e2 > t
                 THEN Some([source |-> SubSeq(line, i, e1 - 1),
                            target |-> SubSeq(line, t, e2 - 1)] @@ labelAt(e2))
                 ELSE None])])])])
    IN  Bind([hits \in {{i \in 1..Len(line) : m(i) # None}} |->
             IF hits = {} THEN None ELSE m(leftmost(hits))])

\* x?.trim() of an optional capture
optTrim(x) == IF x = None THEN None ELSE Some(trim(x[1]))

\* a parseTransition that creates the source state only
parseTransitionSourceOnly(p, line) ==
    Bind([match \in {matchTransition(line)} |->
         IF match = None THEN p
         ELSE Bind([m \in {match[1]} |->
              Bind([src \in {findOrCreateState(p.sm, p.stack, m.source)} |->
                   [p EXCEPT !.sm = [src.sm EXCEPT
                                       !.pool[src.state].transitions =
                                           Append(@, Transition(IF m.event = None THEN ""
                                                                ELSE m.event[1],
                                                     m.target, optTrim(m.guard),
                                                     optTrim(m.action), None))]]])])])

\* parseTransition on the parser state [sm, stack]
parseTransition(p, line) ==
    Bind([match \in {matchTransition(line)} |->
         IF match = None THEN p
         ELSE Bind([m \in {match[1]} |->
              Bind([src \in {findOrCreateState(p.sm, p.stack, m.source)} |->
              Bind([tgt \in {findOrCreateState(src.sm, p.stack, m.target)} |->
              Bind([transition \in {Transition(IF m.event = None THEN "" ELSE m.event[1],
                              m.target, optTrim(m.guard), optTrim(m.action), None)} |->
                   [p EXCEPT !.sm = [tgt.sm EXCEPT
                                       !.pool[src.state].transitions =
                                           Append(@, transition)]]])])])])])

\* a pop that leaves the stack as it is
popNothing(stack) == stack

\* Array.prototype.pop on the stack
pop(stack) == IF Len(stack) = 0 THEN stack ELSE SubSeq(stack, 1, Len(stack) - 1)

\* parseLine on the parser state [sm, stack]
parseLine(p, line) ==
    IF includes(line, "[*]") /\ includes(line, "-->")
    THEN Bind([match \in {matchInitial(line)} |->
              IF match # None THEN [p EXCEPT !.sm.initialState = match[1]] ELSE p])
    ELSE IF startsWith(line, "state ") /\ includes(line, "{")
    THEN Bind([match \in {matchStateOpen(line)} |->
              IF match # None
              THEN Bind([r \in {findOrCreateState(p.sm, p.stack, match[1])} |->
                        [p EXCEPT !.sm = r.sm, !.stack = Append(p.stack, r.state)]])
              ELSE p])
    ELSE IF line = "}"
    THEN [p EXCEPT !.stack = pop(@)]
    ELSE IF startsWith(line, "entry:")
    THEN IF Len(p.stack) > 0
         THEN [p EXCEPT !.sm.pool[p.stack[Len(p.stack)]].entryActions =
                           Append(@, trim(SubSeq(line, 7, Len(line))))]
         ELSE p
    ELSE IF startsWith(line, "exit:")
    THEN IF Len(p.stack) > 0
         THEN [p EXCEPT !.sm.pool[p.stack[Len(p.stack)]].exitActions =
                           Append(@, trim(SubSeq(line, 6, Len(line))))]
         ELSE p
    ELSE IF includes(line, "-->")
    THEN parseTransition(p, line)
    ELSE IF includes(line, ":") /\ ~includes(line, "-->") /\ Len(p.stack) > 0
    THEN Bind([match \in {matchInternal(line)} |->
              IF match # None
              THEN Bind([currentState \in {p.stack[Len(p.stack)]} |->
                        [p EXCEPT !.sm.pool[currentState].transitions =
                           Append(@, Transition(match[1].event, p.sm.pool[currentState].name,
                                                None, Some(match[1].action), Some(TRUE)))]])
              ELSE p])
    ELSE p

\* JSON.parse of the metadata texts that occur in the sources of the model:
\* <<>> when it throws, else <<[qp, events, data]>>, absent keys <<>>
JSONparse(content) ==
    IF content = "{\"events\":[{\"name\":\"GO\"}]}\n"
    THEN Some([qp |-> None, events |-> Some(<<[name |-> Some("GO"), value |-> None]>>),
               data |-> None])
    ELSE IF content = "{\"events\":[{\"name\":\"go\",\"value\":\"Q_USER_SIG\"},{\"value\":\"7\"}]}\n"
    THEN Some([qp |-> None,
               events |-> Some(<<[name |-> Some("go"), value |-> Some("Q_USER_SIG")],
                                 [name |-> None, value |-> Some("7")]>>),
               data |-> None])
    ELSE IF content = "{\"init\":{\"qp\":{\"activeObject\":\"Blinky\",\"priority\":1}}}\n"
    THEN Some([qp |-> Some([activeObject |-> Some("Blinky"), extends |-> None,
                            priority |-> Some("1"), stackSize |-> None]),
               events |-> None, data |-> None])
    ELSE None

Digits == {"0", "1", "2", "3", "4", "5", "6", "7", "8", "9"}

\* the binary digits, most significant first and none for zero, of the
\* number whose digits in the radix (10 or 16) are given; a decimal number
\* is divided by 256 again and again, each remainder giving eight digits
binaryDigits(digits, radix) ==
    LET strip(ds) ==
            IF \A i \in 1..Len(ds) : ds[i] = 0 THEN <<>>
            ELSE SubSeq(ds, CHOOSE i \in 1..Len(ds) :
                                ds[i] # 0 /\ \A j \in 1..(i - 1) : ds[j] = 0, Len(ds))
        digit(ds, i) == IF i < 1 THEN 0 ELSE ds[i]
        \* the value of the eight digits that end at position i
        low(ds, i) ==
            digit(ds, i) + 10 * digit(ds, i - 1) + 100 * digit(ds, i - 2)
            + 1000 * digit(ds, i - 3) + 10000 * digit(ds, i - 4)
            + 100000 * digit(ds, i - 5) + 1000000 * digit(ds, i - 6)
            + 10000000 * digit(ds, i - 7)
        quotient(ds) ==
            <<>> \o [i \in 1..Len(ds) |-> ((low(ds, i - 1) % 256) * 10 + ds[i]) \div 256]
        byte(v) == <<v \div 128, (v \div 64) % 2, (v \div 32) % 2, (v \div 16) % 2,
                     (v \div 8) % 2, (v \div 4) % 2, (v \div 2) % 2, v % 2>>
        nibble(v) == <<v \div 8, (v \div 4) % 2, (v \div 2) % 2, v % 2>>
        RECURSIVE bitsOf(_)
        bitsOf(ds) ==
            IF Len(ds) = 0 THEN <<>>
            ELSE Bind([rest \in {strip(quotient(ds))} |->
                      bitsOf(rest) \o byte(low(ds, Len(ds)) % 256)])
    IN  IF radix = 16
        THEN strip(<<>> \o [i \in 1..(4 * Len(digits)) |->
                               nibble(digits[((i - 1) \div 4) + 1])[((i - 1) % 4) + 1]])
        ELSE strip(bitsOf(strip(digits)))

\* the Number value of an integer given by its binary digits: the nearest
\* value with 53 significant bits, ties to the even one
roundToDouble(bits) ==
    IF Len(bits) <= 53 THEN bits
    ELSE Bind([up \in {bits[54] = 1
                       /\ (bits[53] = 1 \/ \E i \in 55..Len(bits) : bits[i] = 1)} |->
         Bind([clear \in {{i \in 1..53 : bits[i] = 0}} |->
              IF ~up THEN SubSeq(bits, 1, 53) \o [i \in 1..(Len(bits) - 53) |-> 0]
              ELSE IF clear = {} THEN <<1>> \o [i \in 1..Len(bits) |-> 0]
              ELSE Bind([j \in {CHOOSE j \in clear : \A i \in clear : i <= j} |->
                        SubSeq(bits, 1, j - 1) \o <<1>>
                        \o [i \in 1..(Len(bits) - j) |-> 0]])])])

\* the decimal digits of the integer given by its binary digits: sixteen
\* binary digits at a time are added to 65536 times the number so far, which
\* is kept in groups of four decimal digits, the lowest group first
decimalDigits(bits) ==
    LET bit(i) == IF i < 1 THEN 0 ELSE bits[i]
        \* the value of the sixteen binary digits that end at position i
        word(i) ==
            bit(i) + 2 * bit(i - 1) + 4 * bit(i - 2) + 8 * bit(i - 3)
            + 16 * bit(i - 4) + 32 * bit(i - 5) + 64 * bit(i - 6) + 128 * bit(i - 7)
            + 256 * bit(i - 8) + 512 * bit(i - 9) + 1024 * bit(i - 10)
            + 2048 * bit(i - 11) + 4096 * bit(i - 12) + 8192 * bit(i - 13)
            + 16384 * bit(i - 14) + 32768 * bit(i - 15)
        RECURSIVE shiftIn(_, _, _), fold(_, _)
        shiftIn(groups, i, carry) ==
            IF i > Len(groups)
            THEN (IF carry = 0 THEN <<>>
                  ELSE IF carry < 10000 THEN <<carry>>
                  ELSE <<carry % 10000, carry \div 10000>>)
            ELSE <<(groups[i] * 65536 + carry) % 10000>>
                 \o shiftIn(groups, i + 1, (groups[i] * 65536 + carry) \div 10000)
        \* i: the position of the last binary digit of the next sixteen
        fold(groups, i) ==
            IF i > Len(bits) THEN groups
            ELSE Bind([next \in {shiftIn(groups, 1, word(i))} |-> fold(next, i + 16)])
        digitsOf(groups) ==
            <<>> \o [i \in 1..(4 * Len(groups)) |->
                        (groups[Len(groups) - ((i - 1) \div 4)]
                            \div (IF (i - 1) % 4 = 0 THEN 1000
                                  ELSE IF (i - 1) % 4 = 1 THEN 100
                                  ELSE IF (i - 1) % 4 = 2 THEN 10 ELSE 1)) % 10]
        strip(ds) ==
            IF \A i \in 1..Len(ds) : ds[i] = 0 THEN <<0>>
            ELSE SubSeq(ds, CHOOSE i \in 1..Len(ds) :
                                ds[i] # 0 /\ \A j \in 1..(i - 1) : ds[j] = 0, Len(ds))
    IN  strip(digitsOf(fold(<<>>, ((Len(bits) + 15) % 16) + 1)))

\* Number::toString of a non-negative integer Number given by its binary
\* digits: the shortest digits that read back as the same Number (the
\* nearest to it when several do), followed by zeros below 1e21 and written
\* d.ddde+n from 1e21 on
NumberToString(bits) ==
    LET RECURSIVE text(_), increment(_, _)
        text(ds) == IF Len(ds) = 0 THEN ""
                    ELSE CharAt("0123456789", ds[1] + 1) \o text(Tail(ds))
        \* ds + 1 from position i leftwards
        increment(ds, i) ==
            IF i = 0 THEN <<1>> \o ds
            ELSE IF ds[i] = 9 THEN increment([ds EXCEPT ![i] = 0], i - 1)
            ELSE [ds EXCEPT ![i] = @ + 1]
        pad(ds, n) == ds \o [i \in 1..n |-> 0]
        same(ds) == roundToDouble(binaryDigits(ds, 10)) = bits
        digit(ds, i) == IF i > Len(ds) THEN 0 ELSE ds[i]
        \* the first n digits of ds, as they are and with one added
        down(ds, n) == pad(SubSeq(ds, 1, n), Len(ds) - n)
        up(ds, n) == pad(increment(SubSeq(ds, 1, n), n), Len(ds) - n)
        \* the digits cut off after n are more than, or exactly, half a unit
        more(ds, n) == digit(ds, n + 1) > 5
                       \/ (digit(ds, n + 1) = 5 /\ \E i \in (n + 2)..Len(ds) : ds[i] # 0)
        half(ds, n) == digit(ds, n + 1) = 5 /\ \A i \in (n + 2)..Len(ds) : ds[i] = 0
        \* [n, digits]: the least number n of significant digits, and the
        \* number of n significant digits that reads back as the same Number
        shortest(ds) ==
            Bind([n \in {CHOOSE n \in 1..Min(17, Len(ds)) :
                            /\ same(down(ds, n)) \/ same(up(ds, n))
                            /\ \A m \in 1..(n - 1) : ~same(down(ds, m)) /\ ~same(up(ds, m))} |->
                 [n |-> n,
                  digits |-> IF ~same(up(ds, n)) THEN down(ds, n)
                             ELSE IF ~same(down(ds, n)) THEN up(ds, n)
                             ELSE IF more(ds, n) \/ (half(ds, n) /\ ds[n] % 2 = 1)
                             THEN up(ds, n)
                             ELSE down(ds, n)]])
        exponential(s) ==
            text(<<s.digits[1]>>)
            \o (IF s.n > 1 THEN "." \o text(SubSeq(s.digits, 2, s.n)) ELSE "")
            \o "e+" \o text(decimalDigits(binaryDigits(
                                <<(Len(s.digits) - 1) \div 100,
                                  ((Len(s.digits) - 1) \div 10) % 10,
                                  (Len(s.digits) - 1) % 10>>, 10)))
    IN  IF Len(bits) > 1024 THEN "Infinity"
        ELSE Bind([ds \in {decimalDigits(bits)} |->
                  IF Len(bits) <= 53 THEN text(ds)
                  ELSE Bind([s \in {shortest(ds)} |->
                            IF Len(s.digits) <= 21 THEN text(s.digits)
                            ELSE exponential(s)])])

\* parseInt(s), as the text String(...) gives for the result: leading white
\* space, a sign, a 0x or 0X prefix, then the longest run of digits of the
\* radix; NaN when there is none
parseInt(s) ==
    Bind([i \in {skipSpaces(s, 1)} |->
    Bind([j \in {IF at(s, i, "-") \/ at(s, i, "+") THEN i + 1 ELSE i} |->
    Bind([radix \in {IF at(s, j, "0x") \/ at(s, j, "0X") THEN 16 ELSE 10} |->
    Bind([k \in {IF radix = 16 THEN j + 2 ELSE j} |->
    Bind([e \in {scan(s, k, IF radix = 16
                            THEN Digits \cup {CharAt("abcdefABCDEF", n) : n \in 1..12}
                            ELSE Digits)} |->
         IF e = k THEN "NaN"
         ELSE Bind([number \in {NumberToString(roundToDouble(binaryDigits(
                       <<>> \o [n \in 1..(e - k) |->
                           Max(indexOf("0123456789abcdef", CharAt(s, k + n - 1)),
                               indexOf("0123456789ABCDEF", CharAt(s, k + n - 1))) - 1],
                       radix)))} |->
                   IF at(s, i, "-") /\ number # "0" THEN "-" \o number ELSE number])])])])])])

\* line.split(':')[1].trim(); every line it is applied to includes ':'
afterColon(line) == trim(split(line, ":")[2])

\* the catch branch of parseMetadata: known "Label: value" lines, in order
RECURSIVE parseKeyValues(_, _)
parseKeyValues(sm, lines) ==
    IF Len(lines) = 0 THEN sm
    ELSE LET line == lines[1]
             sm1 == IF includes(line, "Active Object:")
                    THEN [sm EXCEPT !.name = afterColon(line)]
                    ELSE IF includes(line, "Priority:")
                    THEN [sm EXCEPT !.priority = Some(parseInt(afterColon(line)))]
                    ELSE IF includes(line, "Stack Size:")
                    THEN [sm EXCEPT !.stackSize = Some(parseInt(afterColon(line)))]
                    ELSE sm
         IN  parseKeyValues(sm1, Tail(lines))

\* parseMetadata
parseMetadata(sm, content) ==
    LET parsed == JSONparse(content)
    IN  IF parsed # None
        THEN LET metadata0 == parsed[1]
                 sm1 == IF metadata0.qp # None
                        THEN LET qp == metadata0.qp[1]
                             IN  [sm EXCEPT
                                    !.name = IF qp.activeObject # None /\ qp.activeObject[1] # ""
                                             THEN qp.activeObject[1] ELSE @,
                                    !.type = IF qp.extends # None /\ qp.extends[1] # ""
                                             THEN qp.extends[1] ELSE @,
                                    !.priority = qp.priority,
                                    !.stackSize = qp.stackSize]
                        ELSE sm
                 sm2 == IF metadata0.events # None
                        THEN [sm1 EXCEPT !.events = metadata0.events[1]] ELSE sm1
             IN  IF metadata0.data # None
                 THEN [sm2 EXCEPT !.dataMembers = metadata0.data[1]] ELSE sm2
        ELSE parseKeyValues(sm, split(content, "\n"))

\* a setupHierarchy that sets nothing
setupHierarchyNothing(sm) == sm

\* setupHierarchy: every composite state gets an initial transition, to the
\* first child that a root state's '@Q_INIT_SIG' transition targets, else to
\* its first child
setupHierarchy(sm) ==
    LET targeted(child) ==
            \E r \in 1..Len(sm.states) :
                \E t \in 1..Len(sm.pool[sm.states[r]].transitions) :
                    LET tr == sm.pool[sm.states[r]].transitions[t]
                    IN  tr.target = sm.pool[child].name /\ tr.event = Q_INIT_SIG
        initial(state) ==
            LET children == sm.pool[state].children
                found == {c \in 1..Len(children) : targeted(children[c])}
            IN  IF found # {} THEN sm.pool[children[leftmost(found)]].name
                ELSE sm.pool[children[1]].name
    IN  [sm EXCEPT !.pool =
            [i \in 1..Len(sm.pool) |->
                IF Len(sm.pool[i].children) > 0
                THEN [sm.pool[i] EXCEPT !.initialTransition = Some(InitTransition(initial(i)))]
                ELSE sm.pool[i]]]

\* one iteration of parse's loop; st = [p, inDiagram, inMetadata, metadataContent]
parseStep(st, rawLine) ==
    Bind([line \in {trim(rawLine)} |->
        IF line = "" \/ (startsWith(line, "%%") /\ ~startsWith(line, "%%{"))
        THEN st
        ELSE IF startsWith(line, "%%{")
        THEN [st EXCEPT !.inMetadata = TRUE, !.metadataContent = ""]
        ELSE IF line = "}%%" /\ st.inMetadata
        THEN [st EXCEPT !.inMetadata = FALSE,
                        !.p.sm = parseMetadata(st.p.sm, st.metadataContent)]
        ELSE IF st.inMetadata
        THEN [st EXCEPT !.metadataContent = @ \o line \o "\n"]
        ELSE IF startsWith(line, "stateDiagram-v2") \/ startsWith(line, "stateDiagram")
        THEN [st EXCEPT !.inDiagram = TRUE]
        ELSE IF ~st.inDiagram
        THEN st
        ELSE [st EXCEPT !.p = parseLine(st.p, line)]])

RECURSIVE parseLoop(_, _)
parseLoop(st, lines) ==
    IF Len(lines) = 0 THEN st
    ELSE parseLoop(parseStep(st, lines[1]), Tail(lines))

\* QpMermaidParser.parse on an instance whose fields are sm and stack:
\* [sm, stack] after the call; sm is also the model the call returns
parse(sm, stack, content) ==
    Bind([st \in {parseLoop([p |-> [sm |-> sm, stack |-> stack], inDiagram |-> FALSE,
                    inMetadata |-> FALSE, metadataContent |-> ""],
                   split(content, "\n"))} |->
         [sm |-> setupHierarchy(st.p.sm), stack |-> st.p.stack]])

---------------------------------------------------------------------------
(* StateMachineValidator *)

\* addError's record; location is <<>> when the argument is omitted
Diagnostic(severity, message, location) ==
    [severity |-> severity, message |-> message, location |-> location]

\* the location object literals { state }, { state, transition }
AtState(statePath) == Some([state |-> Some(statePath), transition |-> None])
AtTransition(statePath, event) == Some([state |-> Some(statePath), transition |-> Some(event)])

UpperChars == {CharAt(Alphabet, i) : i \in 1..26}
AlnumChars == WordChars \ {"_"}

\* /^[A-Z][a-zA-Z0-9]*$/.test(name)
isValidStateName(name) ==
    /\ Len(name) >= 1
    /\ CharAt(name, 1) \in UpperChars
    /\ \A i \in 2..Len(name) : CharAt(name, i) \in AlnumChars

\* /^[A-Z][A-Z0-9_]*$/.test(name)
isValidEventName(name) ==
    /\ Len(name) >= 1
    /\ CharAt(name, 1) \in UpperChars
    /\ \A i \in 2..Len(name) : CharAt(name, i) \in UpperChars \cup Digits \cup {"_"}

\* isSpecialTarget
isSpecialTarget(target) ==
    target = "[*]" \/ startsWith(target, "[H") \/ includes(target, "History")

\* the validator's findState: first match in a depth-first walk of states
validatorFindState(pool, name, states) == searchInStates(pool, states, name)

\* validateBasicStructure without the duplicate-name walk
basicDiagnostics(sm) ==
    (IF sm.name = "" \/ sm.name = "StateMachine"
     THEN <<Diagnostic("warning", "State machine should have a meaningful name", None)>>
     ELSE <<>>)
    \o (IF sm.initialState = ""
        THEN <<Diagnostic("error", "State machine must have an initial state", None)>>
        ELSE <<>>)
    \o (IF Len(sm.states) = 0
        THEN <<Diagnostic("error", "State machine must have at least one state", None)>>
        ELSE <<>>)

\* collectStateNames: a state whose name an earlier state of the walk bears
collectStateNames(sm) ==
    LET w == walk(sm)
        dup(k) == \E j \in 1..(k - 1) : sm.pool[w[j][1]].name = sm.pool[w[k][1]].name
        RECURSIVE from(_)
        from(k) ==
            IF k > Len(w) THEN <<>>
            ELSE (IF dup(k)
                  THEN <<Diagnostic("error", "Duplicate state name: " \o sm.pool[w[k][1]].name,
                                    AtState(w[k][2]))>>
                  ELSE <<>>) \o from(k + 1)
    IN  from(1)

validateBasicStructure(sm) == basicDiagnostics(sm) \o collectStateNames(sm)

\* validateActions
RECURSIVE actionDiagnostics(_, _)
actionDiagnostics(allActions, statePath) ==
    IF Len(allActions) = 0 THEN <<>>
    ELSE (IF ~endsWith(allActions[1], ")") /\ ~endsWith(allActions[1], ";")
          THEN <<Diagnostic("warning",
                            "Action '" \o allActions[1] \o "' should end with semicolon",
                            AtState(statePath))>>
          ELSE <<>>) \o actionDiagnostics(Tail(allActions), statePath)

validateActions(state, statePath) ==
    actionDiagnostics(state.entryActions \o state.exitActions, statePath)

\* the body of validateStates' loop for one state
stateDiagnostics(state, statePath) ==
    (IF ~isValidStateName(state.name)
     THEN <<Diagnostic("warning", "State name '" \o state.name
                          \o "' should start with uppercase and use CamelCase",
                       AtState(statePath))>>
     ELSE <<>>)
    \o (IF Len(state.children) > 0 /\ state.initialTransition = None
        THEN <<Diagnostic("error", "Composite state '" \o state.name
                             \o "' must have an initial transition", AtState(statePath))>>
        ELSE <<>>)
    \o (IF Len(state.children) = 0 /\ state.initialTransition # None
        THEN <<Diagnostic("warning", "State '" \o state.name
                             \o "' has initial transition but no child states",
                          AtState(statePath))>>
        ELSE <<>>)
    \o validateActions(state, statePath)

\* validateStates: the states in walk order (a state, then its subtree)
validateStates(sm) ==
    LET w == walk(sm)
        RECURSIVE from(_)
        from(k) == IF k > Len(w) THEN <<>>
                   ELSE stateDiagnostics(sm.pool[w[k][1]], w[k][2]) \o from(k + 1)
    IN  from(1)

\* traverseFromState without the visit of a composite state's initial transition
RECURSIVE traverseFromStateNoInitial(_, _, _)
traverseFromStateNoInitial(sm, visited, stateName) ==
    IF stateName \in visited THEN visited
    ELSE LET state == searchInStates(sm.pool, sm.states, stateName)
             RECURSIVE overTransitions(_, _)
             overTransitions(v, k) ==
                 IF k > Len(sm.pool[state].transitions) THEN v
                 ELSE LET transition == sm.pool[state].transitions[k]
                      IN  overTransitions(
                              IF transition.isInternal # Some(TRUE)
                              THEN traverseFromStateNoInitial(sm, v, transition.target)
                              ELSE v, k + 1)
         IN  IF state = 0 THEN visited \cup {stateName}
             ELSE overTransitions(visited \cup {stateName}, 1)

\* traverseFromState: the visited set after the call
RECURSIVE traverseFromState(_, _, _)
traverseFromState(sm, visited, stateName) ==
    IF stateName \in visited THEN visited
    ELSE LET state == validatorFindState(sm.pool, stateName, sm.states)
             RECURSIVE overTransitions(_, _)
             overTransitions(v, k) ==
                 IF k > Len(sm.pool[state].transitions) THEN v
                 ELSE LET transition == sm.pool[state].transitions[k]
                      IN  overTransitions(
                              IF transition.isInternal # Some(TRUE)
                              THEN traverseFromState(sm, v, transition.target)
                              ELSE v, k + 1)
         IN  IF state = 0 THEN visited \cup {stateName}
             ELSE LET v1 == overTransitions(visited \cup {stateName}, 1)
                  IN  IF sm.pool[state].initialTransition # None
                      THEN traverseFromState(sm, v1, sm.pool[state].initialTransition[1].target)
                      ELSE v1

\* the visited set checkReachability leaves behind
reachabilityVisited(sm) ==
    IF sm.initialState # "" THEN traverseFromState(sm, {}, sm.initialState) ELSE {}

\* checkUnreachableStates
checkUnreachableStates(sm, visited) ==
    LET w == walk(sm)
        RECURSIVE from(_)
        from(k) ==
            IF k > Len(w) THEN <<>>
            ELSE LET name == sm.pool[w[k][1]].name
                 IN  (IF name \notin visited /\ name # "[*]"
                      THEN <<Diagnostic("warning", "State '" \o name \o "' is unreachable",
                                        AtState(w[k][2]))>>
                      ELSE <<>>) \o from(k + 1)
    IN  from(1)

\* checkReachability's diagnostics
checkReachability(sm) == checkUnreachableStates(sm, reachabilityVisited(sm))

\* the number of occurrences of the character c in s: (s.match(/c/g) || []).length
countChar(s, c) == Cardinality({i \in 1..Len(s) : CharAt(s, i) = c})

\* validateGuard
validateGuard(guard, statePath, event) ==
    (IF countChar(guard, "(") # countChar(guard, ")")
     THEN <<Diagnostic("error", "Unbalanced parentheses in guard: " \o guard,
                       AtTransition(statePath, event))>>
     ELSE <<>>)
    \o (IF includes(guard, "=") /\ ~includes(guard, "==") /\ ~includes(guard, "<=")
           /\ ~includes(guard, ">=")
        THEN <<Diagnostic("warning",
                          "Possible assignment instead of comparison in guard: " \o guard,
                          AtTransition(statePath, event))>>
        ELSE <<>>)

\* hasDuplicate without the comparison of the guards
hasDuplicateEventOnly(transitions, k) ==
    \E j \in 1..Len(transitions) : transitions[j].event = transitions[k].event /\ j # k

\* whether another transition of the state has the same event and guard
hasDuplicate(transitions, k) ==
    \E j \in 1..Len(transitions) :
        /\ transitions[j].event = transitions[k].event
        /\ transitions[j].guard = transitions[k].guard
        /\ j # k

\* the body of validateStateTransitions' inner loop for transition k of state
transitionDiagnostics(pool, states, state, statePath, k) ==
    LET transition == state.transitions[k]
    IN  (IF ~isSpecialTarget(transition.target)
            /\ validatorFindState(pool, transition.target, states) = 0
         THEN <<Diagnostic("error", "Transition target '" \o transition.target
                              \o "' does not exist",
                           AtTransition(statePath, transition.event))>>
         ELSE <<>>)
        \o (IF transition.guard # None /\ transition.guard[1] # ""
            THEN validateGuard(transition.guard[1], statePath, transition.event)
            ELSE <<>>)
        \o (IF hasDuplicate(state.transitions, k)
            THEN <<Diagnostic("error", "Duplicate transition for event '"
                                 \o transition.event \o "'", AtState(statePath))>>
            ELSE <<>>)

\* validateStateTransitions(states, parentPath); idxs is the part of states
\* the loop has not visited yet
RECURSIVE validateStateTransitions(_, _, _, _)
validateStateTransitions(pool, states, idxs, parentPath) ==
    IF Len(idxs) = 0 THEN <<>>
    ELSE LET state == pool[idxs[1]]
             statePath == qualify(parentPath, state.name)
             RECURSIVE from(_)
             from(k) == IF k > Len(state.transitions) THEN <<>>
                        ELSE transitionDiagnostics(pool, states, state, statePath, k)
                             \o from(k + 1)
         IN  from(1)
             \o (IF Len(state.children) > 0
                 THEN validateStateTransitions(pool, state.children, state.children, statePath)
                 ELSE <<>>)
             \o validateStateTransitions(pool, states, Tail(idxs), parentPath)

validateTransitions(sm) == validateStateTransitions(sm.pool, sm.states, sm.states, "")

\* hasTimeoutEvents
hasTimeoutEvents(sm) ==
    \E i \in 1..Len(sm.pool) :
        \E k \in 1..Len(sm.pool[i].transitions) : sm.pool[i].transitions[k].event = "TIMEOUT"

\* a property value in a template literal or as a RegExp.test argument:
\* undefined reads 'undefined'
String(x) == IF x = None THEN "undefined" ELSE x[1]

\* the event loop of validateQPConventions from event k on: [errors, raised];
\* event.value.includes throws a TypeError when the record has no value
RECURSIVE eventDiagnostics(_, _)
eventDiagnostics(events, k) ==
    IF k > Len(events) THEN [errors |-> <<>>, raised |-> None]
    ELSE Bind([event \in {events[k]} |->
         Bind([named \in {IF ~isValidEventName(String(event.name))
                           THEN <<Diagnostic("warning", "Event '" \o String(event.name)
                                                \o "' should be in UPPER_CASE format", None)>>
                           ELSE <<>>} |->
              IF event.value = None
              THEN [errors |-> named, raised |-> Some("TypeError")]
              ELSE Bind([rest \in {eventDiagnostics(events, k + 1)} |->
                        [errors |-> named
                            \o (IF ~includes(event.value[1], "Q_USER_SIG")
                                THEN <<Diagnostic("warning", "Event '" \o String(event.name)
                                           \o "' should be based on Q_USER_SIG", None)>>
                                ELSE <<>>)
                            \o rest.errors,
                         raised |-> rest.raised]])])])

\* validateQPConventions: [errors, raised], the diagnostics it adds and what
\* it throws
validateQPConventions(sm) ==
    Bind([events \in {eventDiagnostics(sm.events, 1)} |->
         IF events.raised # None THEN events
         ELSE [errors |-> events.errors
                   \o (IF hasTimeoutEvents(sm)
                          /\ ~(\E m \in 1..Len(sm.dataMembers) :
                                  sm.dataMembers[m].type = "QTimeEvt")
                       THEN <<Diagnostic("warning",
                              "State machine uses TIMEOUT events but has no QTimeEvt data member",
                              None)>>
                       ELSE <<>>),
               raised |-> None]])

\* validate that returns after the first check group that found something
validateFirstFinding(sm) ==
    Bind([basic \in {validateBasicStructure(sm)} |->
         [errors |-> IF basic # <<>> THEN basic
                     ELSE validateStates(sm) \o checkReachability(sm)
                          \o validateTransitions(sm) \o validateQPConventions(sm).errors,
          visitedStates |-> reachabilityVisited(sm),
          raised |-> None]])

\* validate: the fields [errors, visitedStates] the call leaves and what it
\* throws; it returns errors when it throws nothing
validate(sm) ==
    Bind([qp \in {validateQPConventions(sm)} |->
         [errors |-> validateBasicStructure(sm) \o validateStates(sm) \o checkReachability(sm)
                       \o validateTransitions(sm) \o qp.errors,
          visitedStates |-> reachabilityVisited(sm),
          raised |-> qp.raised]])

---------------------------------------------------------------------------
(* HierarchicalStateParser: scope resolution *)

\* Map.prototype.set: the map is a function from its keys
mapSet(map, key, value) == [k \in DOMAIN map \cup {key} |-> IF k = key THEN value ELSE map[k]]

\* Map.prototype.has
mapHas(map, key) == key \in DOMAIN map

\* an empty Map
EmptyMap == [k \in {} |-> 0]

\* buildStateMap over the states in walk order: the full path of each state,
\* and its simple name unless the map has that key already
buildStateMap(map, sm) ==
    LET w == walk(sm)
        RECURSIVE from(_, _)
        from(m, k) ==
            IF k > Len(w) THEN m
            ELSE LET m1 == mapSet(m, w[k][2], w[k][1])
                     name == sm.pool[w[k][1]].name
                 IN  from(IF ~mapHas(m1, name) THEN mapSet(m1, name, w[k][1]) ELSE m1, k + 1)
    IN  from(map, 1)

\* the "relative to current state's parent" loop of resolveTarget, i downwards
RECURSIVE relativeLoop(_, _, _, _)
relativeLoop(map, target, pathParts, i) ==
    IF i < 0 THEN None
    ELSE LET candidatePath == qualify(join(slice(pathParts, i), "."), target)
         IN  IF mapHas(map, candidatePath) THEN Some(candidatePath)
             ELSE relativeLoop(map, target, pathParts, i - 1)

\* resolveTarget without its lookups: the target is qualified with the path of
\* the owning state whether or not such a state exists
resolveTargetUnchecked(map, target, fromPath) ==
    IF target = "[*]" \/ startsWith(target, "[H") THEN target
    ELSE IF mapHas(map, target) /\ ~includes(target, ".") THEN target
    ELSE fromPath \o "." \o target

\* resolveTarget
resolveTarget(map, target, fromPath) ==
    IF target = "[*]" \/ startsWith(target, "[H") THEN target
    ELSE IF mapHas(map, target) THEN target
    ELSE LET pathParts == split(fromPath, ".")
             relative == relativeLoop(map, target, pathParts, Len(pathParts))
             siblingPath == join(slice(pathParts, Len(pathParts) - 1), ".") \o "." \o target
         IN  IF relative # None THEN relative[1]
             ELSE IF Len(pathParts) > 1 /\ mapHas(map, siblingPath) THEN siblingPath
             ELSE target

\* resolveTransitions: every transition target and initial-transition target
resolveTransitions(map, sm) ==
    LET w == walk(sm)
        pathOf(i) == LET k == CHOOSE k \in 1..Len(w) : w[k][1] = i IN w[k][2]
    IN  [sm EXCEPT !.pool =
            [i \in 1..Len(sm.pool) |->
                [sm.pool[i] EXCEPT
                    !.transitions =
                        [t \in 1..Len(sm.pool[i].transitions) |->
                            [sm.pool[i].transitions[t] EXCEPT
                                !.target = resolveTarget(map, @, pathOf(i))]],
                    !.initialTransition =
                        IF sm.pool[i].initialTransition # None
                        THEN Some([sm.pool[i].initialTransition[1] EXCEPT
                                      !.target = resolveTarget(map, @, pathOf(i))])
                        ELSE None]]]

\* setupInitialTransitions without the isInitial lookup: always the first child
setupInitialTransitionsFirstChild(sm) ==
    [sm EXCEPT !.pool =
        [i \in 1..Len(sm.pool) |->
            IF Len(sm.pool[i].children) > 0 /\ sm.pool[i].initialTransition = None
            THEN [sm.pool[i] EXCEPT !.initialTransition =
                     Some(InitTransition(sm.pool[sm.pool[i].children[1]].name))]
            ELSE sm.pool[i]]]

\* setupInitialTransitions: a composite state without initial transition gets
\* one to its first child flagged isInitial, else to its first child
setupInitialTransitions(sm) ==
    LET initial(state) ==
            LET children == sm.pool[state].children
                flagged == {c \in 1..Len(children) : sm.pool[children[c]].isInitial = Some(TRUE)}
            IN  IF flagged # {} THEN sm.pool[children[leftmost(flagged)]].name
                ELSE sm.pool[children[1]].name
    IN  [sm EXCEPT !.pool =
            [i \in 1..Len(sm.pool) |->
                IF Len(sm.pool[i].children) > 0 /\ sm.pool[i].initialTransition = None
                THEN [sm.pool[i] EXCEPT !.initialTransition = Some(InitTransition(initial(i)))]
                ELSE sm.pool[i]]]

\* parseHierarchicalStates on an instance whose stateMap is map:
\* [sm, map] after the call; sm is the model the call returns
parseHierarchicalStates(map, sm) ==
    LET map1 == buildStateMap(map, sm)
    IN  [sm |-> setupInitialTransitions(resolveTransitions(map1, sm)), map |-> map1]

---------------------------------------------------------------------------
(* MermaidPreprocessor *)

\* stands for the character U+2713 (check mark) of the simplified label
CheckMark == "^"

\* Map.prototype.set on the insertion-ordered list of <<key, value>> entries
entrySet(entries, key, value) ==
    IF \E k \in 1..Len(entries) : entries[k][1] = key
    THEN [k \in 1..Len(entries) |-> IF entries[k][1] = key THEN <<key, value>> ELSE entries[k]]
    ELSE Append(entries, <<key, value>>)

\* Map.prototype.get of a key the map holds
entryGet(entries, key) ==
    entries[CHOOSE k \in 1..Len(entries) : entries[k][1] = key][2]

\* the metadata values: { entry: [], exit: [], internal: [] } of a state block,
\* the transitionMeta of processTransition, { type: 'history', historyType }
StateMeta == [kind |-> "state", entry |-> <<>>, exit |-> <<>>, internal |-> <<>>]
TransitionMeta(source, target, event, guard, action) ==
    [kind |-> "transition", source |-> source, target |-> target, event |-> event,
     guard |-> guard, action |-> action]
HistoryMeta(historyType) == [kind |-> "history", historyType |-> historyType]

\* /^state\s+(\w+)\s*{$/ on the trimmed line: <<>> or <<match[1]>>
matchStateBlock(trimmedLine) ==
    Bind([j \in {skipSpaces(trimmedLine, 6)} |->
    Bind([k \in {wordEnd(trimmedLine, j)} |->
    Bind([b \in {skipSpaces(trimmedLine, k)} |->
         IF startsWith(trimmedLine, "state") /\ j > 6 /\ k > j
            /\ at(trimmedLine, b, "{") /\ b = Len(trimmedLine)
         THEN Some(SubSeq(trimmedLine, j, k - 1)) ELSE None])])])

\* /:\s*(\w+)\s*(?:\/\s*(.+))?/ : <<>> or <<[event, action]>>, action optional
matchInternalPre(line) ==
    LET m(i) ==
            Bind([j \in {skipSpaces(line, i + 1)} |->
            Bind([k \in {wordEnd(line, j)} |->
            Bind([slash \in {skipSpaces(line, k)} |->
            Bind([a \in {skipSpaces(line, slash + 1)} |->
                 IF k > j
                 THEN Some([event |-> SubSeq(line, j, k - 1),
                            action |-> IF at(line, slash, "/") /\ slash < Len(line)
                                       THEN Some(SubSeq(line,
                                                   IF a > Len(line) THEN Len(line) ELSE a,
                                                   Len(line)))
                                       ELSE None])
                 ELSE None])])])])
    IN  Bind([hits \in {{i \in 1..Len(line) : at(line, i, ":") /\ m(i) # None}} |->
             IF hits = {} THEN None ELSE m(leftmost(hits))])

\* /^(\s*)(\w+)\s*-->\s*(\w+)\s*:\s*([^[/]+)(?:\s*\[([^\]]+)\])?(?:\s*\/\s*(.+))?$/
\* : <<>> or <<[indent, source, target, event, guard, action]>>
matchTransitionPre(line) ==
    Bind([s0 \in {skipSpaces(line, 1)} |->
    Bind([e1 \in {wordEnd(line, s0)} |->
    Bind([arrow \in {skipSpaces(line, e1)} |->
    Bind([t \in {skipSpaces(line, arrow + 3)} |->
    Bind([e2 \in {wordEnd(line, t)} |->
    Bind([colon \in {skipSpaces(line, e2)} |->
    Bind([ev0 \in {skipSpaces(line, colon + 1)} |->
    \* [^[/]+ needs one character: \s* gives its last blank back
    Bind([ev \in {IF ev0 <= Len(line) /\ CharAt(line, ev0) \notin {"[", "/"} THEN ev0
         ELSE IF ev0 > colon + 1 THEN ev0 - 1 ELSE 0} |->
    Bind([evEnd \in {IF ev = 0 THEN 0 ELSE scanTo(line, ev, {"[", "/"})} |->
    Bind([gEnd \in {scanTo(line, evEnd + 1, {"]"})} |->
    Bind([hasGuard \in {at(line, evEnd, "[")} |->
    Bind([guardOk \in {gEnd > evEnd + 1 /\ gEnd <= Len(line)} |->
    Bind([slash \in {IF hasGuard THEN skipSpaces(line, gEnd + 1) ELSE evEnd} |->
    Bind([a \in {skipSpaces(line, slash + 1)} |->
    Bind([hasAction \in {at(line, slash, "/")} |->
    Bind([actionOk \in {slash < Len(line)} |->
    Bind([atEnd \in {IF hasGuard THEN gEnd = Len(line) ELSE evEnd = Len(line) + 1} |->
         IF e1 > s0 /\ at(line, arrow, "-->") /\ e2 > t /\ at(line, colon, ":") /\ ev # 0
            /\ (hasGuard => guardOk)
            /\ (atEnd \/ (hasAction /\ actionOk))
         THEN Some([indent |-> SubSeq(line, 1, s0 - 1),
                    source |-> SubSeq(line, s0, e1 - 1),
                    target |-> SubSeq(line, t, e2 - 1),
                    event |-> SubSeq(line, ev, evEnd - 1),
                    guard |-> IF hasGuard THEN Some(SubSeq(line, evEnd + 1, gEnd - 1))
                              ELSE None,
                    action |-> IF ~atEnd
                               THEN Some(SubSeq(line, IF a > Len(line) THEN Len(line) ELSE a,
                                                Len(line)))
                               ELSE None])
         ELSE None])])])])])])])])])])])])])])])])])

\* processTransition that returns a line without match trimmed
processTransitionTrimmed(entries, line) == [line |-> trim(line), entries |-> entries]

\* processTransition: [line, entries]: the output line and the metadata after
processTransition(entries, line) ==
    Bind([match \in {matchTransitionPre(line)} |->
         IF match = None THEN [line |-> line, entries |-> entries]
         ELSE Bind([m \in {match[1]} |->
              Bind([trimmedEvent \in {trim(m.event)} |->
              Bind([transitionKey \in {m.source \o "_to_" \o m.target \o "_" \o trimmedEvent} |->
              Bind([simplifiedLabel \in {IF m.guard # None \/ m.action # None
                   THEN trimmedEvent \o " " \o CheckMark ELSE trimmedEvent} |->
                   [line |-> m.indent \o m.source \o " --> " \o m.target \o " : "
                                \o simplifiedLabel,
                    entries |-> entrySet(entries, transitionKey,
                                   TransitionMeta(m.source, m.target, trimmedEvent,
                                                  optTrim(m.guard), optTrim(m.action)))]])])])])])

\* line.match(/^\s*/)[0]
leadingSpace(line) == SubSeq(line, 1, skipSpaces(line, 1) - 1)

\* line.replace(/\[H\*?\]/, replacement): the first marker only
replaceHistory(line, replacement) ==
    Bind([hits \in {{i \in 1..Len(line) : at(line, i, "[H]") \/ at(line, i, "[H*]")}} |->
         IF hits = {} THEN line
         ELSE Bind([i \in {leftmost(hits)} |->
              Bind([n \in {IF at(line, i, "[H]") THEN 3 ELSE 4} |->
                   SubSeq(line, 1, i - 1) \o replacement \o SubSeq(line, i + n, Len(line))])])])

\* the decimal text of a natural number, as a template literal prints it
RECURSIVE toString(_)
toString(n) ==
    IF n < 10 THEN CharAt("0123456789", n + 1)
    ELSE toString(n \div 10) \o CharAt("0123456789", (n % 10) + 1)

\* one iteration of preprocess's loop; st = [entries, counter, out, inStateBlock,
\* currentState, stateIndent, raised], currentState = "" standing for null
preprocessStep(st, line) ==
    Bind([trimmedLine \in {trim(line)} |->
    Bind([block \in {matchStateBlock(trimmedLine)} |->
    Bind([inBlock \in {st.inStateBlock /\ st.currentState # ""} |->
    \* this.metadata.get(currentState).<list>.push(...) throws a TypeError
    \* when the value under that key has no such list
    Bind([holder \in {IF inBlock THEN entryGet(st.entries, st.currentState) ELSE StateMeta} |->
    Bind([internal \in {IF inBlock THEN matchInternalPre(trimmedLine) ELSE None} |->
    Bind([history \in {"History_" \o toString(st.counter + 1)} |->
        IF block # None
        THEN [st EXCEPT !.currentState = block[1], !.inStateBlock = TRUE,
                        !.stateIndent = leadingSpace(line),
                        !.entries = entrySet(@, block[1], StateMeta),
                        !.out = Append(@, line)]
        ELSE IF st.inStateBlock /\ trimmedLine = "}"
        THEN [st EXCEPT !.inStateBlock = FALSE, !.currentState = "", !.out = Append(@, line)]
        ELSE IF inBlock /\ startsWith(trimmedLine, "entry:")
        THEN Bind([action \in {trim(SubSeq(trimmedLine, 7, Len(trimmedLine)))} |->
                  IF holder.kind # "state" THEN [st EXCEPT !.raised = TRUE]
                  ELSE [st EXCEPT !.entries = entrySet(@, st.currentState,
                                                 [holder EXCEPT !.entry = Append(@, action)]),
                                  !.out = Append(@, st.stateIndent \o "    %% entry: "
                                                       \o action)]])
        ELSE IF inBlock /\ startsWith(trimmedLine, "exit:")
        THEN Bind([action \in {trim(SubSeq(trimmedLine, 6, Len(trimmedLine)))} |->
                  IF holder.kind # "state" THEN [st EXCEPT !.raised = TRUE]
                  ELSE [st EXCEPT !.entries = entrySet(@, st.currentState,
                                                 [holder EXCEPT !.exit = Append(@, action)]),
                                  !.out = Append(@, st.stateIndent \o "    %% exit: "
                                                       \o action)]])
        ELSE IF inBlock /\ includes(trimmedLine, ":") /\ ~includes(trimmedLine, "-->")
                /\ internal # None
        THEN IF holder.kind # "state" THEN [st EXCEPT !.raised = TRUE]
             ELSE [st EXCEPT !.entries = entrySet(@, st.currentState,
                                            [holder EXCEPT !.internal = Append(@, internal[1])]),
                             !.out = Append(@, st.stateIndent \o "    %% internal: "
                                                  \o trimmedLine)]
        ELSE IF includes(trimmedLine, "-->")
        THEN Bind([r \in {processTransition(st.entries, line)} |->
                  [st EXCEPT !.entries = r.entries, !.out = Append(@, r.line)]])
        ELSE IF includes(trimmedLine, "[H]") \/ includes(trimmedLine, "[H*]")
        THEN [st EXCEPT !.counter = @ + 1,
                        !.out = Append(@, replaceHistory(line, history)),
                        !.entries = entrySet(@, history,
                                       HistoryMeta(IF includes(trimmedLine, "[H*]")
                                                   THEN "deep" ELSE "shallow"))]
        ELSE [st EXCEPT !.out = Append(@, line)]])])])])])])

RECURSIVE preprocessLoop(_, _)
preprocessLoop(st, lines) ==
    IF Len(lines) = 0 \/ st.raised THEN st
    ELSE preprocessLoop(preprocessStep(st, lines[1]), Tail(lines))

\* JSON values: [t |-> "str", v |-> text], [t |-> "arr", v |-> <<values>>],
\* [t |-> "obj", v |-> << <<key, value>>, ... >>]
JStr(s) == [t |-> "str", v |-> s]
JArr(vs) == [t |-> "arr", v |-> vs]
JObj(kvs) == [t |-> "obj", v |-> kvs]

\* a property that JSON.stringify leaves out when its value is undefined
optProp(key, x) == IF x = None THEN <<>> ELSE << <<key, JStr(x[1])>> >>

\* the JSON value of a metadata value
metaJSON(value) ==
    IF value.kind = "state"
    THEN JObj(<< <<"entry", JArr([k \in 1..Len(value.entry) |-> JStr(value.entry[k])])>>,
                 <<"exit", JArr([k \in 1..Len(value.exit) |-> JStr(value.exit[k])])>>,
                 <<"internal",
                   JArr([k \in 1..Len(value.internal) |->
                           JObj(<< <<"event", JStr(value.internal[k].event)>> >>
                                \o optProp("action", value.internal[k].action))])>> >>)
    ELSE IF value.kind = "transition"
    THEN JObj(<< <<"source", JStr(value.source)>>, <<"target", JStr(value.target)>>,
                 <<"event", JStr(value.event)>> >>
              \o optProp("guard", value.guard) \o optProp("action", value.action))
    ELSE JObj(<< <<"type", JStr("history")>>, <<"historyType", JStr(value.historyType)>> >>)

\* the quoted JSON text of a string
quote(s) ==
    LET RECURSIVE esc(_)
        esc(i) ==
            IF i > Len(s) THEN ""
            ELSE (IF CharAt(s, i) = "\"" THEN "\\\""
                  ELSE IF CharAt(s, i) = "\\" THEN "\\\\"
                  ELSE IF CharAt(s, i) = "\t" THEN "\\t"
                  ELSE CharAt(s, i)) \o esc(i + 1)
    IN  "\"" \o esc(1) \o "\""

RECURSIVE spaces(_)
spaces(n) == IF n = 0 THEN "" ELSE " " \o spaces(n - 1)

\* JSON.stringify(value, null, 2) at nesting depth d
RECURSIVE stringify(_, _)
stringify(value, d) ==
    LET item(k) ==
            spaces(2 * (d + 1))
            \o (IF value.t = "arr" THEN stringify(value.v[k], d + 1)
                ELSE quote(value.v[k][1]) \o ": " \o stringify(value.v[k][2], d + 1))
    IN  IF value.t = "str" THEN quote(value.v)
        ELSE IF Len(value.v) = 0 THEN (IF value.t = "arr" THEN "[]" ELSE "{}")
        ELSE (IF value.t = "arr" THEN "[" ELSE "{") \o "\n"
             \o join([k \in 1..Len(value.v) |-> item(k)], ",\n") \o "\n"
             \o spaces(2 * d) \o (IF value.t = "arr" THEN "]" ELSE "}")

\* a property key that is an array index: "0", or digits that do not start
\* with 0, of a number up to 2^32 - 2
isArrayIndex(key) ==
    /\ Len(key) \in 1..10
    /\ \A i \in 1..Len(key) : CharAt(key, i) \in Digits
    /\ Len(key) > 1 => CharAt(key, 1) # "0"
    /\ Len(key) = 10 =>
           \/ key = "4294967294"
           \/ \E i \in 1..10 :
                  /\ SubSeq(key, 1, i - 1) = SubSeq("4294967294", 1, i - 1)
                  /\ indexOf("0123456789", CharAt(key, i))
                         < indexOf("0123456789", CharAt("4294967294", i))

\* the entries in the order of the own property keys of
\* Object.fromEntries(entries): the array indices in ascending numeric order,
\* then the other keys in the order they were inserted
ownPropertyKeys(entries) ==
    LET less(a, b) ==
            \/ Len(a) < Len(b)
            \/ /\ Len(a) = Len(b)
               /\ \E i \in 1..Len(a) :
                      /\ SubSeq(a, 1, i - 1) = SubSeq(b, 1, i - 1)
                      /\ indexOf("0123456789", CharAt(a, i))
                             < indexOf("0123456789", CharAt(b, i))
        index(k) == isArrayIndex(entries[k][1])
        rank(k) ==
            IF index(k)
            THEN 1 + Cardinality({j \in 1..Len(entries) :
                                     index(j) /\ less(entries[j][1], entries[k][1])})
            ELSE Cardinality({j \in 1..Len(entries) : index(j)})
                 + Cardinality({j \in 1..k : ~index(j)})
    IN  <<>> \o [r \in 1..Len(entries) |->
                    entries[CHOOSE k \in 1..Len(entries) : rank(k) = r]]

\* JSON.stringify(Object.fromEntries(this.metadata), null, 2)
metadataJson(entries) ==
    Bind([own \in {ownPropertyKeys(entries)} |->
         stringify(JObj([k \in 1..Len(own) |-> <<own[k][1], metaJSON(own[k][2])>>]), 0)])

\* the scan of preprocess from the instance fields (entries, counter) as they
\* are when the loop starts
preprocessScan(entries, counter, content) ==
    Bind([st \in {preprocessLoop([entries |-> entries, counter |-> counter, out |-> <<>>,
                         inStateBlock |-> FALSE, currentState |-> "",
                         stateIndent |-> "", raised |-> FALSE],
                        split(content, "\n"))} |->
         [metadata |-> st.entries, stateCounter |-> st.counter,
          result |-> IF st.raised
                     THEN [raised |-> TRUE, mermaidDiagram |-> "", metadata |-> ""]
                     ELSE [raised |-> FALSE,
                           mermaidDiagram |-> join(st.out, "\n"),
                           metadata |-> "\n%%{qp-metadata:\n" \o metadataJson(st.entries)
                                           \o "\n}%%"]]])

\* preprocess without the two resets at its start
preprocessNoClear(entries, counter, content) == preprocessScan(entries, counter, content)

\* MermaidPreprocessor.preprocess on an instance whose fields are entries and
\* counter: this.metadata.clear(); this.stateCounter = 0; then the scan.
\* [metadata, stateCounter] are the fields after the call, result what it
\* returns (raised when it throws)
preprocess(entries, counter, content) == preprocessScan(<<>>, 0, content)

---------------------------------------------------------------------------
(* The values the fields have when a specification does not use them *)

ParserIdle == stateStack = <<>> /\ parserLog = <<>>
ResolverIdle == stateMap = EmptyMap /\ resolveArg = None /\ resolveFirst = None
                /\ resolveRuns = 0
ValidatorIdle == errors = <<>> /\ visitedStates = {} /\ validated = None /\ raised = None
PreprocessorIdle == metadata = <<>> /\ stateCounter = 0 /\ preLog = <<>> /\ preResult = None
LcaIdle == lcaArgs = <<"", "">> /\ lcaResult = None

---------------------------------------------------------------------------
(* SpecLCA: findLCA and calculateTransitionSequence on bounded paths *)

Segments == {"A", "On", "Operand1", "Operand2"}

\* the dotted paths of at most n segments
RECURSIVE PathsUpTo(_)
PathsUpTo(n) ==
    IF n = 1 THEN Segments
    ELSE PathsUpTo(n - 1) \cup {p \o "." \o x : p \in PathsUpTo(n - 1), x \in Segments}

Paths == PathsUpTo(MaxPathDepth)

InitLCA ==
    /\ lcaArgs \in Paths \X Paths
    /\ lcaResult = None
    /\ stateMachine = NewStateMachine
    /\ ParserIdle /\ ResolverIdle /\ ValidatorIdle /\ PreprocessorIdle

FindLCA ==
    /\ lcaResult' = Some([op |-> "findLCA", lca |-> findLCA(lcaArgs[1], lcaArgs[2])])
    /\ UNCHANGED <<stateMachine, parserVars, resolverVars, validatorVars,
                   preprocessorVars, lcaArgs>>

CalculateTransitionSequence ==
    /\ lcaResult' = Some([op |-> "calculateTransitionSequence"]
                         @@ calculateTransitionSequence(lcaArgs[1], lcaArgs[2]))
    /\ UNCHANGED <<stateMachine, parserVars, resolverVars, validatorVars,
                   preprocessorVars, lcaArgs>>

NextLCA == FindLCA \/ CalculateTransitionSequence

SpecLCA == InitLCA /\ [][NextLCA]_vars

---------------------------------------------------------------------------
(* State trees as inputs of the resolver and the validator *)

\* the elements of a finite set of numbers in increasing order
RECURSIVE sorted(_)
sorted(S) ==
    IF S = {} THEN <<>>
    ELSE LET m == CHOOSE x \in S : \A y \in S : x <= y
         IN  <<m>> \o sorted(S \ {m})

\* state i and its ancestors under the parent function par (0: no parent)
RECURSIVE ancestors(_, _)
ancestors(par, i) == IF i = 0 THEN {} ELSE {i} \cup ancestors(par, par[i])

\* the forests of n states numbered in walk order: the parent of state i is
\* state i-1, one of its ancestors, or none
Shapes(n) ==
    {par \in [1..n -> 0..(n - 1)] :
        \A i \in 1..n : par[i] < i /\ (i > 1 => par[i] \in ancestors(par, i - 1) \cup {0})}

\* the namings of a forest in which siblings bear different names
Namings(n, par, names) ==
    {nm \in [1..n -> names] :
        \A i, j \in 1..n : (i < j /\ par[i] = par[j]) => nm[i] # nm[j]}

\* the State objects of a forest: names, parent names and child lists
Forest(n, par, nm) ==
    [i \in 1..n |->
        [NewState(nm[i]) EXCEPT
            !.parent = IF par[i] = 0 THEN None ELSE Some(nm[par[i]]),
            !.children = sorted({j \in 1..n : par[j] = i})]]

\* a StateMachine over a forest, the first root its initial state
Machine(n, par, pool) ==
    [NewStateMachine EXCEPT !.name = "Calc", !.pool = pool,
                            !.states = sorted({j \in 1..n : par[j] = 0}),
                            !.initialState = pool[1].name]

---------------------------------------------------------------------------
(* SpecResolver: parseHierarchicalStates on bounded models *)

ResolverNames == {"A", "B", "C"}

\* transition targets: simple names, dotted paths, an unknown name, pseudostates
ResolverTargets == {"B", "A.B", "B.C", "Z", "[*]", "[H]"}

\* a model with no transition, or with one feature: a transition, a child
\* flagged isInitial, or an initial transition already in place
ResolverPools(n, par, nm) ==
    LET pool == Forest(n, par, nm)
    IN  {pool}
        \cup {[pool EXCEPT ![i].transitions = <<Transition("E", t, None, None, None)>>] :
                 i \in 1..n, t \in ResolverTargets}
        \cup {[pool EXCEPT ![i].isInitial = Some(TRUE)] : i \in {j \in 1..n : par[j] # 0}}
        \cup {[pool EXCEPT ![i].initialTransition = Some(InitTransition(t))] :
                 i \in 1..n, t \in ResolverTargets}

InitResolver ==
    /\ \E n \in 1..MaxStates : \E par \in Shapes(n) :
          \E nm \in Namings(n, par, ResolverNames) : \E pool \in ResolverPools(n, par, nm) :
              stateMachine = Machine(n, par, pool)
    /\ ResolverIdle /\ ParserIdle /\ ValidatorIdle /\ PreprocessorIdle /\ LcaIdle

\* parseHierarchicalStates(stateMachine) on the resolver instance at hand
ResolveSame ==
    LET r == parseHierarchicalStates(stateMap, stateMachine)
    IN  /\ stateMachine' = r.sm
        /\ stateMap' = r.map
        /\ resolveArg' = Some(stateMachine)
        /\ resolveFirst' = IF resolveFirst = None THEN Some(r.sm) ELSE resolveFirst
        /\ resolveRuns' = Min(resolveRuns + 1, 2)
        /\ UNCHANGED <<parserVars, validatorVars, preprocessorVars, lcaVars>>

\* new HierarchicalStateParser().parseHierarchicalStates(stateMachine)
ResolveFresh ==
    LET r == parseHierarchicalStates(EmptyMap, stateMachine)
    IN  /\ stateMachine' = r.sm
        /\ stateMap' = r.map
        /\ resolveArg' = Some(stateMachine)
        /\ resolveFirst' = IF resolveFirst = None THEN Some(r.sm) ELSE resolveFirst
        /\ resolveRuns' = Min(resolveRuns + 1, 2)
        /\ UNCHANGED <<parserVars, validatorVars, preprocessorVars, lcaVars>>

NextResolver == ResolveSame \/ ResolveFresh

SpecResolver == InitResolver /\ [][NextResolver]_vars

---------------------------------------------------------------------------
(* SpecReuse: one HierarchicalStateParser instance, two machines *)

\* the machines of at most n states with at most one transition
ReuseMachines(n) ==
    UNION {UNION {UNION {
        {Machine(k, par, pool) :
            pool \in {Forest(k, par, nm)}
                \cup {[Forest(k, par, nm) EXCEPT
                          ![i].transitions = <<Transition("E", t, None, None, None)>>] :
                         i \in 1..k, t \in ResolverTargets}} :
        nm \in Namings(k, par, ResolverNames)} : par \in Shapes(k)} : k \in 1..n}

InitReuse ==
    /\ \E n \in 1..MaxPriorStates : \E par \in Shapes(n) :
          \E nm \in Namings(n, par, ResolverNames) :
              stateMachine = Machine(n, par, Forest(n, par, nm))
    /\ ResolverIdle /\ ParserIdle /\ ValidatorIdle /\ PreprocessorIdle /\ LcaIdle

\* the first call on the instance: parseHierarchicalStates(stateMachine)
ResolvePrior ==
    /\ resolveRuns = 0
    /\ ResolveSame

\* the next call on the same instance, with another machine
ResolveOther ==
    /\ resolveRuns = 1
    /\ \E M \in ReuseMachines(MaxNextStates) :
          /\ M # stateMachine
          /\ M # resolveArg[1]
          /\ \E r \in {parseHierarchicalStates(stateMap, M)} :
                /\ stateMachine' = r.sm
                /\ stateMap' = r.map
                /\ resolveArg' = Some(M)
                /\ resolveRuns' = 2
    /\ UNCHANGED <<resolveFirst, parserVars, validatorVars, preprocessorVars, lcaVars>>

NextReuse == ResolvePrior \/ ResolveOther

SpecReuse == InitReuse /\ [][NextReuse]_vars

---------------------------------------------------------------------------
(* SpecValidator: validate on bounded models *)

\* the states of a validator input bear the names S1, S2, ...
StateName(i) == "S" \o toString(i)

\* pool with transition tr appended to the transitions of state i
withTransition(pool, i, tr) == [pool EXCEPT ![i].transitions = Append(@, tr)]

\* pool with an initial transition to the first child in every composite state
withInitials(pool) ==
    [i \in 1..Len(pool) |->
        IF Len(pool[i].children) > 0
        THEN [pool[i] EXCEPT !.initialTransition = Some(InitTransition(pool[pool[i].children[1]].name))]
        ELSE pool[i]]

\* the pools over a forest: composite states with or without their initial
\* transitions; at most one transition on event E, internal or not, to a
\* state or to the unknown Z; at most one more transition, on E or F, with
\* or without guard, to the first or the last state
ValidatorPools(n, par) ==
    LET bare == Forest(n, par, [i \in 1..n |-> StateName(i)])
        ones(pool) ==
            {pool} \cup {withTransition(pool, i, Transition("E", t, None, None, internal)) :
                            i \in 1..n, t \in {StateName(j) : j \in 1..n} \cup {"Z"},
                            internal \in {None, Some(TRUE)}}
        twos(pool) ==
            {pool} \cup {withTransition(pool, i, Transition(e, t, g, None, None)) :
                            i \in 1..n, t \in {StateName(1), StateName(n)},
                            e \in {"E", "F"}, g \in {None, Some("g")}}
    IN  UNION {UNION {twos(p1) : p1 \in ones(p0)} : p0 \in {bare, withInitials(bare)}}

\* the event lists of the validator's models: none, or one event whose name
\* is not upper case and whose value is not based on Q_USER_SIG
ValidatorEvents == {<<>>, <<[name |-> Some("go"), value |-> Some("7")]>>}

InitValidator ==
    /\ \E n \in 1..MaxVStates : \E par \in Shapes(n) : \E pool \in ValidatorPools(n, par) :
          \E initial \in {"", StateName(1), StateName(n), "Z"} : \E events \in ValidatorEvents :
              stateMachine = [Machine(n, par, pool) EXCEPT !.initialState = initial,
                                                           !.events = events]
    /\ ValidatorIdle /\ ParserIdle /\ ResolverIdle /\ PreprocessorIdle /\ LcaIdle

\* new StateMachineValidator().validate(stateMachine), or validate on the
\* validator at hand: the call resets both fields before it uses them
Validate ==
    \E r \in {validate(stateMachine)} :
        /\ errors' = r.errors
        /\ visitedStates' = r.visitedStates
        /\ validated' = Some(stateMachine)
        /\ raised' = r.raised
        /\ UNCHANGED <<stateMachine, parserVars, resolverVars, preprocessorVars, lcaVars>>

NextValidator == Validate

SpecValidator == InitValidator /\ [][NextValidator]_vars

---------------------------------------------------------------------------
(* Spec: a parser instance parses sources, the validator checks the model *)

\* the example diagram of the extension's README
Blinky ==
    "stateDiagram-v2\n"
    \o "    %% QP Active Object: Blinky\n"
    \o "    %% Priority: 1\n"
    \o "    %% Stack Size: 512\n"
    \o "    \n"
    \o "    [*] --> Off : @Q_INIT_SIG\n"
    \o "    \n"
    \o "    state Off {\n"
    \o "        entry: BSP_ledOff(0)\n"
    \o "        entry: QTimeEvt_armX(&me->timeEvt, BSP_TICKS_PER_SEC/2, 0U)\n"
    \o "    }\n"
    \o "    \n"
    \o "    state On {\n"
    \o "        entry: BSP_ledOn(0)\n"
    \o "        entry: QTimeEvt_armX(&me->timeEvt, BSP_TICKS_PER_SEC/2, 0U)\n"
    \o "    }\n"
    \o "    \n"
    \o "    Off --> On : TIMEOUT\n"
    \o "    On --> Off : TIMEOUT"

\* the texts handed to parse
Sources ==
    { Blinky,
      "",
      "stateDiagram-v2\n[*] --> Idle\nstate Idle {\n  state Armed {\n    entry: arm()\n  }\n  exit: leave()\n}\nIdle --> Armed : GO / act()",
      "stateDiagram-v2\nstate Off {\n  entry: dim()",
      "%%{\nActive Object: Lamp\nPriority: 02\nStack Size: 0x100\n}%%\nstateDiagram-v2\n[*] --> On\nOn --> Off : SWITCH",
      "%%{\n{\"init\":{\"qp\":{\"activeObject\":\"Blinky\",\"priority\":1}}}\n}%%\nstateDiagram\nstate On {\n}",
      "stateDiagram-v2\nstate On {\n  On : TICK / count()\n}\nOn --> [*] : STOP",
      "stateDiagram-v2\nentry: lost()\n}\nstate Top {\n  state Sub {\n  }\n}",
      "stateDiagram-v2\nOff --> On : PRESS / led() [ready]\nOn --> Off",
      "state Hidden {\n}\nOff --> On : TIMEOUT",
      "%%{\n{\"events\":[{\"name\":\"GO\"}]}\n}%%\nstateDiagram-v2\n[*] --> On\nOn --> On : GO",
      "%%{\n{\"events\":[{\"name\":\"go\",\"value\":\"Q_USER_SIG\"},{\"value\":\"7\"}]}\n}%%\nstateDiagram-v2\n[*] --> On" }

Init ==
    /\ stateMachine = NewStateMachine
    /\ ParserIdle /\ ResolverIdle /\ ValidatorIdle /\ PreprocessorIdle /\ LcaIdle

\* new QpMermaidParser(): the constructor
NewParser ==
    /\ parserLog # <<>>
    /\ stateMachine' = NewStateMachine
    /\ stateStack' = <<>>
    /\ parserLog' = <<>>
    /\ UNCHANGED <<resolverVars, validatorVars, preprocessorVars, lcaVars>>

\* parser.parse(content) on the instance at hand
Parse ==
    /\ Len(parserLog) < MaxParses
    /\ \E content \in Sources :
          \E r \in {parse(stateMachine, stateStack, content)} :
              /\ stateMachine' = r.sm
              /\ stateStack' = r.stack
              /\ parserLog' = Append(parserLog, content)
    /\ UNCHANGED <<resolverVars, validatorVars, preprocessorVars, lcaVars>>

Next == NewParser \/ Parse \/ Validate

Spec == Init /\ [][Next]_vars

---------------------------------------------------------------------------
(* SpecParser: a fresh parser parses one text; the model goes to the resolver
   and the validator, the text to the preprocessor *)

\* the diagram lines the texts are made of
ParserLines ==
    { "state A {", "  state B {", "}", "  [*] --> B", "C --> B : E / go() [g]",
      "  : TICK", "  : TOCK / t()" }

\* further texts: the metadata block as QUICKSTART.md writes it before a
\* diagram, guards with parentheses, a transition with guard before action,
\* the hierarchical example of README.md
ParserBlocks ==
    { "%%{init: {\n    'qp': {\n        'activeObject': 'Blinky'\n    }\n}}%%\nstateDiagram-v2\n    [*] --> Off\n    Off --> On : TIMEOUT",
      "stateDiagram-v2\n[*] --> A\nA --> B : E [)(]\nB --> A : F [(x)]\nB --> A : G [f(x]",
      "stateDiagram-v2\nC --> B : E [g] / go()",
      "stateDiagram-v2\nstate Operational {\n    [*] --> SubState1\n    \n    state SubState1 {\n        entry: doSomething()\n    }\n    \n    state SubState2 {\n        entry: doSomethingElse()\n    }\n}" }

\* the diagram bodies of at most n lines
RECURSIVE ParserBodies(_)
ParserBodies(n) ==
    IF n = 0 THEN {""}
    ELSE ParserLines \cup ParserBodies(n - 1)
         \cup {t \o "\n" \o l : t \in ParserBodies(n - 1) \ {""}, l \in ParserLines}

\* the texts: a stateDiagram-v2 line and a body, or one of the further texts
ParserTexts == {"stateDiagram-v2\n" \o body : body \in ParserBodies(MaxParserLines)}
               \cup ParserBlocks

\* new QpMermaidParser().parse(content)
ParseText ==
    /\ parserLog = <<>>
    /\ \E content \in ParserTexts :
          \E r \in {parse(NewStateMachine, <<>>, content)} :
              /\ stateMachine' = r.sm
              /\ stateStack' = r.stack
              /\ parserLog' = <<content>>
    /\ UNCHANGED <<resolverVars, validatorVars, preprocessorVars, lcaVars>>

\* new HierarchicalStateParser().parseHierarchicalStates(model) on the model
\* parse returned
ResolveParsed ==
    /\ parserLog # <<>>
    /\ resolveRuns = 0
    /\ ResolveFresh

\* new StateMachineValidator().validate(model)
ValidateParsed ==
    /\ parserLog # <<>>
    /\ validated = None
    /\ Validate

\* new MermaidPreprocessor().preprocess(content) on the text that was parsed
PreprocessParsed ==
    /\ parserLog # <<>>
    /\ preLog = <<>>
    /\ \E r \in {preprocess(metadata, stateCounter, parserLog[1])} :
          /\ metadata' = r.metadata
          /\ stateCounter' = r.stateCounter
          /\ preResult' = Some(r.result)
          /\ preLog' = <<[content |-> parserLog[1], entries |-> Len(metadata),
                           counter |-> stateCounter]>>
    /\ UNCHANGED <<stateMachine, parserVars, resolverVars, validatorVars, lcaVars>>

NextParser == ParseText \/ ResolveParsed \/ ValidateParsed \/ PreprocessParsed

SpecParser == Init /\ [][NextParser]_vars

---------------------------------------------------------------------------
(* SpecPreprocessor: one preprocessor instance preprocesses text after text *)

\* the lines the texts are made of
PreLines ==
    { "state A {", "  entry: a()", "  A : TICK / t()", "A --> B : E [g] / go()", "  [H]" }

\* further texts: a block named like a history key or a transition key,
\* nested blocks, a diagram with none of the lines the preprocessor rewrites,
\* history markers on transition lines, a block whose name is a number
PreBlocks ==
    { "[H*] --> B : E",
      "  [H]\n[H] --> B : E\n  note right of A\n  [H*]",
      "state History_1 {\n  [H]\n  entry: a()\n}",
      "state A_to_B_E {\n  A --> B : E\n  B : TICK / t()\n}",
      "state A {\n  state B {\n    entry: b()\n  }\n  exit: a()\n}",
      "stateDiagram-v2\n  [*] --> A\n\n  entry: lost()\n}\n  A : idle",
      "state A {\n}\nstate 1 {\n  entry: x()\n}" }

\* the texts of at most n lines
RECURSIVE PreTexts(_)
PreTexts(n) ==
    IF n = 0 THEN {""}
    ELSE PreLines \cup PreTexts(n - 1)
         \cup {t \o "\n" \o l : t \in PreTexts(n - 1) \ {""}, l \in PreLines}

InitPreprocessor ==
    /\ stateMachine = NewStateMachine
    /\ PreprocessorIdle /\ ParserIdle /\ ResolverIdle /\ ValidatorIdle /\ LcaIdle

\* preprocessor.preprocess(content) on the instance at hand; preLog keeps the
\* text of the last call and what the call found in the two fields
Preprocess ==
    /\ \E content \in PreTexts(MaxPreLines) \cup PreBlocks :
          \E r \in {preprocess(metadata, stateCounter, content)} :
              /\ metadata' = r.metadata
              /\ stateCounter' = r.stateCounter
              /\ preResult' = Some(r.result)
              /\ preLog' = <<[content |-> content, entries |-> Len(metadata),
                               counter |-> stateCounter]>>
    /\ UNCHANGED <<stateMachine, parserVars, resolverVars, validatorVars, lcaVars>>

NextPreprocessor == Preprocess

SpecPreprocessor == InitPreprocessor /\ [][NextPreprocessor]_vars

---------------------------------------------------------------------------
(* Properties of the LCA operations (checked under SpecLCA) *)

\* the number of leading segments two segment lists share
CommonSegments(P, Q) ==
    LET ks == {k \in 0..Min(Len(P), Len(Q)) : SubSeq(P, 1, k) = SubSeq(Q, 1, k)}
    IN  CHOOSE k \in ks : \A j \in ks : j <= k

\* C3: findLCA(p, q) is the longest run of whole leading segments that p and
\* q share, joined by dots (empty when the first segments differ); for
\* On.Operand1 and On.Operand2 it is On.
Thm_C3_LCAIsLongestCommonPrefix ==
    (lcaResult # None /\ lcaResult[1].op = "findLCA") =>
        LET P == split(lcaArgs[1], ".")
            Q == split(lcaArgs[2], ".")
        IN  /\ lcaResult[1].lca = join(SubSeq(P, 1, CommonSegments(P, Q)), ".")
            /\ (P[1] # Q[1] => lcaResult[1].lca = "")
            /\ (lcaArgs = <<"On.Operand1", "On.Operand2">> => lcaResult[1].lca = "On")

Wit_C3_OperandLCA ==
    /\ lcaResult # None
    /\ lcaResult[1].op = "findLCA"
    /\ lcaArgs = <<"On.Operand1", "On.Operand2">>
    /\ lcaResult[1].lca = "On"

\* C4: calculateTransitionSequence gives as exit sequence the source and its
\* ancestors below the LCA, innermost first, and as entry sequence the
\* ancestors of the target below the LCA and the target, outermost first; the
\* LCA is in neither, whether one path is an ancestor of the other or the two
\* share nothing.
Thm_C4_ExitEntrySequences ==
    (lcaResult # None /\ lcaResult[1].op = "calculateTransitionSequence") =>
        LET P == split(lcaArgs[1], ".")
            Q == split(lcaArgs[2], ".")
            k == CommonSegments(P, Q)
            r == lcaResult[1]
        IN  /\ r.exitSequence = [j \in 1..(Len(P) - k) |-> join(SubSeq(P, 1, Len(P) - j + 1), ".")]
            /\ r.entrySequence = [j \in 1..(Len(Q) - k) |-> join(SubSeq(Q, 1, k + j), ".")]
            /\ \A j \in 1..Len(r.exitSequence) : r.exitSequence[j] # r.lca
            /\ \A j \in 1..Len(r.entrySequence) : r.entrySequence[j] # r.lca

Wit_C4_AncestorTarget ==
    /\ lcaResult # None
    /\ lcaResult[1].op = "calculateTransitionSequence"
    /\ lcaArgs = <<"On.Operand1.A", "On">>
    /\ lcaResult[1].exitSequence = <<"On.Operand1.A", "On.Operand1">>
    /\ lcaResult[1].entrySequence = <<>>

---------------------------------------------------------------------------
(* Properties of the resolver (checked under SpecResolver) *)

\* the dotted path of pool state i of model sm
PathOf(sm, i) ==
    LET w == walk(sm) IN w[CHOOSE k \in 1..Len(w) : w[k][1] = i][2]

\* the pool indices of the states of sm whose dotted path is path
StatesAt(sm, path) == {i \in 1..Len(sm.pool) : PathOf(sm, i) = path}

\* C1: a second parseHierarchicalStates, on the same or on a fresh resolver,
\* leaves the model as the first one returned it: every transition target and
\* every initial transition is unchanged.
Thm_C1_ResolveIdempotent ==
    resolveRuns = 2 => stateMachine = resolveFirst[1]

Wit_C1_ResolvedTwice ==
    /\ resolveRuns = 2
    /\ \E i \in 1..Len(stateMachine.pool) :
          /\ stateMachine.pool[i].transitions # <<>>
          /\ stateMachine.pool[i].transitions[1].target = "A.B.C"
    /\ \E i \in 1..Len(stateMachine.pool) : stateMachine.pool[i].initialTransition # None

\* C2: with root states A and B and a child B of A, a transition owned by a
\* state in the scope of A.B whose target is the simple name B has the target
\* A.B after parseHierarchicalStates.
Cex_C2_InnermostScopeWins ==
    (resolveRuns >= 1
     /\ StatesAt(resolveArg[1], "A") # {} /\ StatesAt(resolveArg[1], "B") # {}
     /\ StatesAt(resolveArg[1], "A.B") # {}) =>
        \A i \in 1..Len(stateMachine.pool) :
            \A t \in 1..Len(stateMachine.pool[i].transitions) :
                (/\ PathOf(resolveArg[1], i) \in {"A.B"} \cup {"A.B." \o x : x \in ResolverNames}
                 /\ resolveArg[1].pool[i].transitions[t].target = "B")
                => stateMachine.pool[i].transitions[t].target = "A.B"

\* C11: parseHierarchicalStates(M) on an instance that resolved another
\* machine before returns what a fresh instance returns for M.
Cex_C11_ReusedAsFresh ==
    (resolveRuns = 2 /\ resolveArg # Some(resolveFirst[1])) =>
        stateMachine = parseHierarchicalStates(EmptyMap, resolveArg[1]).sm

\* C18: after parseHierarchicalStates a transition target that was the bare
\* name of nested states only is the dotted path of one of these states; a
\* pseudostate token and a target that matches no state are as they were.
Cex_C18_TargetsFullyQualified ==
    resolveRuns = 1 =>
        \A i \in 1..Len(stateMachine.pool) :
            \A t \in 1..Len(stateMachine.pool[i].transitions) :
                LET before == resolveArg[1].pool[i].transitions[t].target
                    after == stateMachine.pool[i].transitions[t].target
                    named == {j \in 1..Len(stateMachine.pool) :
                                 stateMachine.pool[j].name = before}
                IN  /\ (named # {} /\ \A j \in named : stateMachine.pool[j].parent # None)
                           => after \in {PathOf(stateMachine, j) : j \in named}
                    /\ (before = "[*]" \/ startsWith(before, "[H") \/ before = "Z")
                           => after = before

\* C5: after parseHierarchicalStates every composite state that had no
\* initial transition has one with event @Q_INIT_SIG to its first child
\* flagged isInitial, or to its first child when none is flagged; an initial
\* transition already in place stays (with its target resolved), and a state
\* without children and without initial transition gets none.
Thm_C5_DefaultInitialChild ==
    resolveRuns >= 1 =>
        \A i \in 1..Len(stateMachine.pool) :
            LET before == resolveArg[1].pool[i]
                after == stateMachine.pool[i]
                flagged == {c \in 1..Len(before.children) :
                               resolveArg[1].pool[before.children[c]].isInitial = Some(TRUE)}
                child == IF flagged # {} THEN before.children[leftmost(flagged)]
                         ELSE before.children[1]
            IN  /\ (before.children # <<>> /\ before.initialTransition = None) =>
                       /\ after.initialTransition # None
                       /\ after.initialTransition[1].event = "@Q_INIT_SIG"
                       /\ after.initialTransition[1].target = resolveArg[1].pool[child].name
                /\ before.initialTransition # None =>
                       /\ after.initialTransition # None
                       /\ after.initialTransition[1].event = before.initialTransition[1].event
                       /\ after.initialTransition[1].target \in
                              {before.initialTransition[1].target,
                               resolveTarget(stateMap, before.initialTransition[1].target,
                                             PathOf(stateMachine, i))}
                /\ (before.children = <<>> /\ before.initialTransition = None) =>
                       after.initialTransition = None

Wit_C5_ThreeChildren ==
    /\ resolveRuns = 1
    /\ \E i \in 1..Len(stateMachine.pool) :
          /\ Len(stateMachine.pool[i].children) = 3
          /\ resolveArg[1].pool[i].initialTransition = None
          /\ \A c \in 1..3 : resolveArg[1].pool[stateMachine.pool[i].children[c]].isInitial = None
          /\ stateMachine.pool[i].initialTransition # None
          /\ stateMachine.pool[i].initialTransition[1].target
                = stateMachine.pool[stateMachine.pool[i].children[1]].name

---------------------------------------------------------------------------
(* Properties of the validator (checked under SpecValidator) *)

\* the diagnostics of errors with this severity, message and state location
Reported(severity, message, statePath) ==
    {k \in 1..Len(errors) :
        /\ errors[k].severity = severity
        /\ errors[k].message = message
        /\ errors[k].location # None
        /\ errors[k].location[1].state = Some(statePath)}

\* the transitions a traversal follows out of pool state i: the targets of
\* its transitions that are not internal and of its initial transition
Followed(sm, i) ==
    {sm.pool[i].transitions[k].target :
        k \in {k \in 1..Len(sm.pool[i].transitions) :
                  sm.pool[i].transitions[k].isInternal # Some(TRUE)}}
    \cup (IF sm.pool[i].initialTransition # None
          THEN {sm.pool[i].initialTransition[1].target} ELSE {})

\* the states a forward traversal from the initial state reaches
RECURSIVE ReachFrom(_, _)
ReachFrom(sm, R) ==
    LET next == R \cup {j \in 1..Len(sm.pool) : \E i \in R : sm.pool[j].name \in Followed(sm, i)}
    IN  IF next = R THEN R ELSE ReachFrom(sm, next)

Reach(sm) == ReachFrom(sm, {i \in 1..Len(sm.pool) : sm.pool[i].name = sm.initialState})

\* the targets of all transitions and initial transitions of the model
Targeted(sm) ==
    UNION {{sm.pool[i].transitions[k].target : k \in 1..Len(sm.pool[i].transitions)}
           \cup (IF sm.pool[i].initialTransition # None
                 THEN {sm.pool[i].initialTransition[1].target} ELSE {}) :
           i \in 1..Len(sm.pool)}

\* C6: validate reports exactly one warning "State '<name>' is unreachable"
\* for every state that is not the initial state and is the target of no
\* transition, and none for a state that the traversal from the initial
\* state over non-internal transitions and initial transitions reaches.
Thm_C6_UnreachableWarnings ==
    validated # None =>
        LET sm == validated[1]
        IN  \A i \in 1..Len(sm.pool) :
                LET name == sm.pool[i].name
                    found == Reported("warning", "State '" \o name \o "' is unreachable",
                                      PathOf(sm, i))
                IN  /\ (name # sm.initialState /\ name \notin Targeted(sm) /\ name # "[*]")
                           => Cardinality(found) = 1
                    /\ i \in Reach(sm) => found = {}

Wit_C6_ReachedThroughInitial ==
    /\ validated # None
    /\ Len(stateMachine.pool) = 3
    /\ stateMachine.initialState = "S1"
    /\ stateMachine.pool[1].children = <<2>>
    /\ stateMachine.pool[1].initialTransition # None
    /\ Reach(stateMachine) = {1, 2}
    /\ Reported("warning", "State 'S2' is unreachable", "S1.S2") = {}
    /\ Cardinality(Reported("warning", "State 'S3' is unreachable", "S3")) = 1

\* C7: validate reports an error "Duplicate transition for event ..." at a
\* state that holds two transitions with the same event and the same guard
\* (two absent guards are the same), and none at a state whose transitions
\* differ pairwise in event or guard.
Thm_C7_DuplicateTransitions ==
    validated # None =>
        LET sm == validated[1]
        IN  \A i \in 1..Len(sm.pool) :
                LET ts == sm.pool[i].transitions
                    same == {<<j, k>> \in (1..Len(ts)) \X (1..Len(ts)) :
                                j < k /\ ts[j].event = ts[k].event /\ ts[j].guard = ts[k].guard}
                    found == UNION {Reported("error", "Duplicate transition for event '"
                                                \o e \o "'", PathOf(sm, i)) : e \in {"E", "F"}}
                IN  /\ same # {} => found # {}
                    /\ same = {} => found = {}

Wit_C7_SameEventOtherGuard ==
    /\ validated # None
    /\ Len(stateMachine.pool) >= 2
    /\ Len(stateMachine.pool[1].transitions) = 2
    /\ stateMachine.pool[1].transitions[1].event = stateMachine.pool[1].transitions[2].event
    /\ stateMachine.pool[1].transitions[1].guard # stateMachine.pool[1].transitions[2].guard
    /\ Reported("error", "Duplicate transition for event 'E'", "S1") = {}
    /\ Len(stateMachine.pool[2].transitions) = 0

\* the diagnostics of the last validate call with the given message
Messages(message) == {k \in 1..Len(errors) : errors[k].message = message}

\* C15: one validate call runs the five check groups whatever the others
\* find: the model has no initial state exactly if the basic-structure error
\* is reported, a composite state lacks its initial transition exactly if the
\* hierarchy error is reported for it, a state is unreached exactly if its
\* warning is reported, a state holds a duplicate transition exactly if the
\* transition error is reported for it, and an event is not based on
\* Q_USER_SIG exactly if the convention warning is reported.
Thm_C15_AllGroupsRun ==
    validated # None =>
        LET sm == validated[1]
        IN  /\ sm.initialState = ""
                   <=> Messages("State machine must have an initial state") # {}
            /\ \A i \in 1..Len(sm.pool) :
                   LET name == sm.pool[i].name
                       ts == sm.pool[i].transitions
                   IN  /\ (sm.pool[i].children # <<>> /\ sm.pool[i].initialTransition = None)
                              <=> Reported("error", "Composite state '" \o name
                                      \o "' must have an initial transition", PathOf(sm, i)) # {}
                       /\ i \notin Reach(sm)
                              <=> Reported("warning", "State '" \o name \o "' is unreachable",
                                           PathOf(sm, i)) # {}
                       /\ (\E j, k \in 1..Len(ts) :
                               j < k /\ ts[j].event = ts[k].event /\ ts[j].guard = ts[k].guard)
                              <=> (\E e \in {"E", "F"} :
                                      Reported("error", "Duplicate transition for event '"
                                                  \o e \o "'", PathOf(sm, i)) # {})
            /\ (\E k \in 1..Len(sm.events) : ~includes(sm.events[k].value[1], "Q_USER_SIG"))
                   <=> Messages("Event 'go' should be based on Q_USER_SIG") # {}

Wit_C15_NoInitialAndDuplicate ==
    /\ validated # None
    /\ stateMachine.initialState = ""
    /\ Len(stateMachine.pool) = 2
    /\ stateMachine.pool[2].children = <<>>
    /\ stateMachine.pool[1].initialTransition = None
    /\ stateMachine.pool[1].children = <<2>>
    /\ Messages("State machine must have an initial state") # {}
    /\ Messages("Composite state 'S1' must have an initial transition") # {}
    /\ Messages("State 'S2' is unreachable") # {}
    /\ Messages("Duplicate transition for event 'E'") # {}
    /\ Messages("Event 'go' should be based on Q_USER_SIG") # {}

\* C16: for every transition of every state whose target is no pseudostate
\* token, validate reports "Transition target '<target>' does not exist" at
\* that state exactly if no state of the tree bears the target name.
Cex_C16_TargetExistence ==
    validated # None =>
        LET sm == validated[1]
        IN  \A i \in 1..Len(sm.pool) : \A k \in 1..Len(sm.pool[i].transitions) :
                LET target == sm.pool[i].transitions[k].target
                IN  ~isSpecialTarget(target) =>
                        (Reported("error", "Transition target '" \o target
                                     \o "' does not exist", PathOf(sm, i)) # {}
                         <=> \A j \in 1..Len(sm.pool) : sm.pool[j].name # target)

\* C17: when validate returns no diagnostic of severity error, initialState
\* is not empty and is the name of a state of the tree.
Cex_C17_PassedMeansInitialExists ==
    (validated # None /\ \A k \in 1..Len(errors) : errors[k].severity # "error") =>
        /\ validated[1].initialState # ""
        /\ \E i \in 1..Len(validated[1].pool) :
               validated[1].pool[i].name = validated[1].initialState

---------------------------------------------------------------------------
(* Properties of the parser and of the pipeline (checked under Spec) *)

\* C8: a fresh parser that parses the Blinky source yields exactly the two
\* root states Off and On, initialState 'Off' and one TIMEOUT transition in
\* each state to the other; validate on that model reports no error.
Thm_C8_BlinkyExample ==
    parserLog = <<Blinky>> =>
        /\ Len(stateMachine.states) = 2
        /\ Len(stateMachine.pool) = 2
        /\ {stateMachine.pool[i].name : i \in {stateMachine.states[1], stateMachine.states[2]}}
               = {"Off", "On"}
        /\ stateMachine.initialState = "Off"
        /\ \A i \in 1..2 :
               /\ Len(stateMachine.pool[i].transitions) = 1
               /\ stateMachine.pool[i].transitions[1].event = "TIMEOUT"
               /\ stateMachine.pool[i].transitions[1].target
                      = (IF stateMachine.pool[i].name = "Off" THEN "On" ELSE "Off")
               /\ stateMachine.pool[i].children = <<>>
        /\ validated = Some(stateMachine)
               => \A k \in 1..Len(errors) : errors[k].severity # "error"

Wit_C8_BlinkyValidated ==
    /\ parserLog = <<Blinky>>
    /\ validated = Some(stateMachine)
    /\ Len(errors) = 2
    /\ stateMachine.pool[1].entryActions[1] = "BSP_ledOff(0)"

\* C10: a parser that has parsed one source returns for the next source the
\* model that a fresh parser returns for it, and holds the same open-scope
\* stack.
Cex_C10_SecondParseAsFresh ==
    Len(parserLog) = 2 =>
        LET fresh == parse(NewStateMachine, <<>>, parserLog[2])
        IN  stateMachine = fresh.sm /\ stateStack = fresh.stack

\* C12: validate on a machine that parse returned throws nothing: it returns
\* its list of diagnostics.
Cex_C12_ValidateNeverThrows ==
    (validated # None /\ parserLog # <<>> /\ validated = Some(stateMachine)) =>
        raised = None

---------------------------------------------------------------------------
(* Properties of the preprocessor (checked under SpecPreprocessor) *)

\* the number of lines of a text that hold a history marker and no arrow
HistoryLines(content) ==
    Cardinality({k \in 1..Len(split(content, "\n")) :
                    /\ includes(split(content, "\n")[k], "[H")
                    /\ ~includes(split(content, "\n")[k], "-->")})

\* C9: whatever calls came before on the instance, preprocess(X) returns the
\* mermaidDiagram and metadata strings that a fresh instance returns for X;
\* the history keys are History_1 .. History_n for the n history lines of X
\* and every key of the metadata map is a key the fresh instance records.
Thm_C9_PreprocessAsFresh ==
    preLog # <<>> =>
        LET X == preLog[1].content
            fresh == preprocessScan(<<>>, 0, X)
        IN  /\ preResult = Some(fresh.result)
            /\ {metadata[k][1] : k \in 1..Len(metadata)}
                   = {fresh.metadata[k][1] : k \in 1..Len(fresh.metadata)}
            /\ {metadata[k][1] : k \in {k \in 1..Len(metadata) : metadata[k][2].kind = "history"}}
                   = {"History_" \o toString(n) : n \in 1..HistoryLines(X)}

Wit_C9_HistoryAfterHistory ==
    /\ preLog # <<>>
    /\ preLog[1].entries = 2
    /\ preLog[1].counter = 2
    /\ preLog[1].content = "state A {\n  [H]"
    /\ includes(preResult[1].mermaidDiagram, "History_1")
    /\ stateCounter = 1
    /\ Len(metadata) = 2

\* the number of state blocks open before line k of lines, by brace nesting
RECURSIVE OpenBlocks(_, _)
OpenBlocks(lines, k) ==
    IF k = 1 THEN 0
    ELSE IF matchStateBlock(trim(lines[k - 1])) # None THEN OpenBlocks(lines, k - 1) + 1
    ELSE IF trim(lines[k - 1]) = "}" THEN Max(OpenBlocks(lines, k - 1) - 1, 0)
    ELSE OpenBlocks(lines, k - 1)

\* line k of lines opens or closes a state block
IsBrace(lines, k) ==
    \/ matchStateBlock(trim(lines[k])) # None
    \/ (trim(lines[k]) = "}" /\ OpenBlocks(lines, k) > 0)

\* line k of lines is an entry:, exit: or internal-transition line in a block
IsBlockLine(lines, k) ==
    /\ OpenBlocks(lines, k) > 0
    /\ \/ startsWith(trim(lines[k]), "entry:")
       \/ startsWith(trim(lines[k]), "exit:")
       \/ (includes(lines[k], ":") /\ ~includes(lines[k], "-->")
           /\ matchInternalPre(trim(lines[k])) # None)

\* line k of lines has one of the shapes the preprocessor recognises
Recognised(lines, k) ==
    \/ IsBrace(lines, k)
    \/ IsBlockLine(lines, k)
    \/ (includes(lines[k], "-->") /\ matchTransitionPre(lines[k]) # None)
    \/ includes(lines[k], "[H]") \/ includes(lines[k], "[H*]")

\* C14: a preprocess call that returns emits one output line per input line;
\* a line of none of the recognised shapes is emitted unchanged at its place,
\* as are the lines that open and close a block; a text without recognised
\* line is returned as the renderable diagram.
Thm_C14_UnrecognisedLinesPassThrough ==
    (preResult # None /\ ~preResult[1].raised) =>
        LET lines == split(preLog[1].content, "\n")
            out == split(preResult[1].mermaidDiagram, "\n")
        IN  /\ Len(out) = Len(lines)
            /\ \A k \in 1..Len(lines) :
                   (~Recognised(lines, k) \/ IsBrace(lines, k)) => out[k] = lines[k]
            /\ (\A k \in 1..Len(lines) : ~Recognised(lines, k))
                   => preResult[1].mermaidDiagram = preLog[1].content

Wit_C14_DiagramWithoutQPLines ==
    /\ preResult # None
    /\ preLog[1].content = "stateDiagram-v2\n  [*] --> A\n\n  entry: lost()\n}\n  A : idle"
    /\ preResult[1].mermaidDiagram = preLog[1].content
    /\ metadata = <<>>

\* the names of the state blocks open before line k of lines, innermost last
RECURSIVE OpenStack(_, _)
OpenStack(lines, k) ==
    IF k = 1 THEN <<>>
    ELSE IF matchStateBlock(trim(lines[k - 1])) # None
    THEN Append(OpenStack(lines, k - 1), matchStateBlock(trim(lines[k - 1]))[1])
    ELSE IF trim(lines[k - 1]) = "}" THEN pop(OpenStack(lines, k - 1))
    ELSE OpenStack(lines, k - 1)

\* the metadata holds a state entry under name whose list (entry, exit or the
\* events of internal) has the item
Recorded(name, list, item) ==
    \E e \in 1..Len(metadata) :
        /\ metadata[e][1] = name
        /\ metadata[e][2].kind = "state"
        /\ \E n \in 1..Len(metadata[e][2][list]) :
               IF list = "internal" THEN metadata[e][2][list][n].event = item
               ELSE metadata[e][2][list][n] = item

\* C19: in a preprocess call that returns, every entry:, exit: or
\* internal-transition line inside an open state block is emitted as a %%
\* comment line and recorded in the metadata entry of the innermost block
\* open at that line.
Cex_C19_InnermostOpenBlock ==
    (preResult # None /\ ~preResult[1].raised) =>
        LET lines == split(preLog[1].content, "\n")
            out == split(preResult[1].mermaidDiagram, "\n")
        IN  \A k \in 1..Len(lines) :
                IsBlockLine(lines, k) =>
                    LET line == trim(lines[k])
                        name == OpenStack(lines, k)[Len(OpenStack(lines, k))]
                    IN  /\ startsWith(trim(out[k]), "%% ")
                        /\ IF startsWith(line, "entry:")
                           THEN Recorded(name, "entry", trim(SubSeq(line, 7, Len(line))))
                           ELSE IF startsWith(line, "exit:")
                           THEN Recorded(name, "exit", trim(SubSeq(line, 6, Len(line))))
                           ELSE Recorded(name, "internal", matchInternalPre(line)[1].event)

\* the numbers n for which the output line holds History_n and the metadata
\* maps History_n to the history kind of the input line's marker
HistoryNumbers(line, outLine) ==
    {n \in 1..Len(metadata) :
        /\ includes(outLine, "History_" \o toString(n))
        /\ \E e \in 1..Len(metadata) :
               /\ metadata[e][1] = "History_" \o toString(n)
               /\ metadata[e][2].kind = "history"
               /\ metadata[e][2].historyType
                      = (IF includes(line, "[H*]") THEN "deep" ELSE "shallow")}

\* C20: in a preprocess call that returns, every input line with a history
\* marker [H] or [H*], a --> line included, is emitted with the marker
\* replaced by a name History_n that the metadata maps to the marker's kind,
\* and no two such lines share a number n.
Cex_C20_EveryHistoryMarkerRewritten ==
    (preResult # None /\ ~preResult[1].raised) =>
        LET lines == split(preLog[1].content, "\n")
            out == split(preResult[1].mermaidDiagram, "\n")
            marked == {k \in 1..Len(lines) :
                          includes(lines[k], "[H]") \/ includes(lines[k], "[H*]")}
        IN  /\ \A k \in marked : HistoryNumbers(lines[k], out[k]) # {}
            /\ \A j, k \in marked :
                   j # k => HistoryNumbers(lines[j], out[j]) \cap HistoryNumbers(lines[k], out[k]) = {}

\* C13: preprocess throws nothing, whatever the text: it returns a result.
Cex_C13_PreprocessNeverThrows ==
    preResult # None => ~preResult[1].raised


---------------------------------------------------------------------------
(* Properties of a fresh parser's output (checked under SpecParser) *)

\* A reading of the diagram text by names alone, line by line:
\*   seen      the state names in the order they first occur, each with the
\*             name of the block that was innermost open then ("" for none)
\*   open      the names of the open blocks, outermost first
\*   top       the target of the last [*] --> line outside every block
\*   markers   the [*] --> lines inside blocks: <<block, target>>
\*   internals the ": EVENT ..." lines inside blocks: <<block, text after ':'>>
\*   declared  the state declarations: <<innermost open block, name>>
RefStart ==
    [seen |-> <<>>, open |-> <<>>, top |-> "", markers |-> <<>>, internals |-> <<>>,
     declared |-> <<>>]

RefTop(sc) == IF sc.open = <<>> THEN "" ELSE sc.open[Len(sc.open)]

\* the word at the start of s
RefWord(s) == SubSeq(s, 1, wordEnd(s, 1) - 1)

\* the word that follows the first occurrence of mark in line
RefAfter(line, mark) ==
    RefWord(trim(SubSeq(line, indexOf(line, mark) + Len(mark), Len(line))))

RefEncounter(sc, name) ==
    IF \E i \in 1..Len(sc.seen) : sc.seen[i][1] = name THEN sc
    ELSE [sc EXCEPT !.seen = Append(@, <<name, RefTop(sc)>>)]

RefLine(sc, raw) ==
    LET line == trim(raw)
    IN  IF includes(line, "[*]") /\ includes(line, "-->")
        THEN IF sc.open = <<>>
             THEN [sc EXCEPT !.top = RefAfter(line, "-->")]
             ELSE [sc EXCEPT !.markers = Append(@, <<RefTop(sc), RefAfter(line, "-->")>>)]
        ELSE IF startsWith(line, "state ")
        THEN LET name == RefAfter(line, "state ")
             IN  [RefEncounter(sc, name) EXCEPT !.open = Append(@, name),
                                                !.declared = Append(@, <<RefTop(sc), name>>)]
        ELSE IF line = "}"
        THEN [sc EXCEPT !.open = IF @ = <<>> THEN @ ELSE SubSeq(@, 1, Len(@) - 1)]
        ELSE IF includes(line, "-->")
        THEN RefEncounter(RefEncounter(sc, RefWord(line)), RefAfter(line, "-->"))
        ELSE IF startsWith(line, ":") /\ sc.open # <<>>
        THEN [sc EXCEPT !.internals =
                 Append(@, <<RefTop(sc), trim(SubSeq(line, 2, Len(line)))>>)]
        ELSE sc

RECURSIVE RefLines(_, _)
RefLines(sc, lines) ==
    IF Len(lines) = 0 THEN sc ELSE RefLines(RefLine(sc, lines[1]), Tail(lines))

\* the reading of a text that starts with its stateDiagram-v2 line
RefScan(content) == RefLines(RefStart, Tail(split(content, "\n")))

\* the positions in seen of the names first met in block parent, in order
RECURSIVE RefMembers(_, _, _)
RefMembers(seen, parent, k) ==
    IF k > Len(seen) THEN <<>>
    ELSE (IF seen[k][2] = parent THEN <<k>> ELSE <<>>) \o RefMembers(seen, parent, k + 1)

\* the text a fresh parser parsed is a plain diagram: no %% line in it
PlainDiagram == parserLog # <<>> /\ ~includes(parserLog[1], "%%")

\* C21: a state first met while a block is open is appended to the children
\* of the innermost open state and has that state's name as parent; a state
\* first met outside every block is appended to the root list and has no
\* parent; a closing brace returns to the enclosing block, and one with no
\* open block changes nothing.
Thm_C21_StatesAttachToInnermostOpenBlock ==
    PlainDiagram =>
        LET ref == RefScan(parserLog[1])
            pool == stateMachine.pool
        IN  /\ Len(pool) = Len(ref.seen)
            /\ \A i \in 1..Len(pool) :
                   /\ pool[i].name = ref.seen[i][1]
                   /\ pool[i].parent = (IF ref.seen[i][2] = "" THEN None
                                        ELSE Some(ref.seen[i][2]))
                   /\ pool[i].children = RefMembers(ref.seen, pool[i].name, 1)
            /\ stateMachine.states = RefMembers(ref.seen, "", 1)
            /\ [k \in 1..Len(stateStack) |-> pool[stateStack[k]].name] = ref.open

\* a parse that first met a state inside a block nested in a block
Wit_C21_NestedBlocks ==
    /\ PlainDiagram
    /\ Len(stateStack) = 2
    /\ \E i \in 1..Len(stateMachine.pool) :
           /\ stateMachine.pool[i].parent = Some("B")
           /\ stateMachine.pool[stateStack[2]].name = "B"
           /\ stateMachine.pool[stateStack[2]].children = <<i>>


\* C22: after parse, initialState is the target of the [*] --> line written
\* outside every state block; [*] --> lines inside state blocks do not
\* change it.
Cex_C22_InitialStateFromTopLevelMarker ==
    PlainDiagram => stateMachine.initialState = RefScan(parserLog[1]).top


\* C23: when a metadata block in the documented form, %%{init: { ... }}%%,
\* stands before the diagram, parse ends the block at its closing marker:
\* the states, the transitions and the initial state are those the diagram
\* alone gives.
Cex_C23_DiagramAfterMetadataBlock ==
    (parserLog # <<>> /\ startsWith(parserLog[1], "%%{") /\ resolveRuns = 0) =>
        LET content == parserLog[1]
            diagram == SubSeq(content, indexOf(content, "stateDiagram-v2"), Len(content))
            alone == parse(NewStateMachine, <<>>, diagram).sm
        IN  /\ stateMachine.pool = alone.pool
            /\ stateMachine.states = alone.states
            /\ stateMachine.initialState = alone.initialState


\* C24: a composite state whose block holds a line [*] --> C, C one of its
\* children, has after parse (and after parseHierarchicalStates) an
\* initialTransition that targets C, also when C is not its first child.
Cex_C24_ExplicitInitialChild ==
    PlainDiagram =>
        LET ref == RefScan(parserLog[1])
            pool == stateMachine.pool
            last(m) == \A n \in (m + 1)..Len(ref.markers) :
                           ref.markers[n][1] # ref.markers[m][1]
            child(i, name) == \E c \in 1..Len(pool[i].children) :
                                  pool[pool[i].children[c]].name = name
        IN  \A m \in 1..Len(ref.markers) : \A i \in 1..Len(pool) :
                (last(m) /\ pool[i].name = ref.markers[m][1] /\ child(i, ref.markers[m][2])) =>
                    /\ pool[i].initialTransition # None
                    /\ \/ pool[i].initialTransition[1].target = ref.markers[m][2]
                       \/ endsWith(pool[i].initialTransition[1].target,
                                   "." \o ref.markers[m][2])


\* the transitions the ": EVENT" and ": EVENT / action" lines written in the
\* blocks of the state named block stand for, in the order of the lines
RECURSIVE RefInternals(_, _, _)
RefInternals(internals, block, k) ==
    IF k > Len(internals) THEN <<>>
    ELSE (IF internals[k][1] = block
          THEN LET text == internals[k][2]
                   slash == indexOf(text, "/")
               IN  <<Transition(RefWord(text), block, None,
                                IF slash = 0 THEN None
                                ELSE Some(trim(SubSeq(text, slash + 1, Len(text)))),
                                Some(TRUE))>>
          ELSE <<>>) \o RefInternals(internals, block, k + 1)

\* C25: every line ": EVENT" or ": EVENT / action" inside an open state
\* block adds to the innermost open state one transition with that event,
\* the state's own name as target, isInternal true and the written action
\* (none when none is written); outside every block it adds nothing.
Cex_C25_InternalTransitionPerLine ==
    (PlainDiagram /\ resolveRuns = 0) =>
        LET ref == RefScan(parserLog[1])
            pool == stateMachine.pool
        IN  \A i \in 1..Len(pool) :
                SelectSeq(pool[i].transitions, LAMBDA t : t.isInternal = Some(TRUE))
                    = RefInternals(ref.internals, pool[i].name, 1)


\* C26: state names are scoped to their sibling list: a declaration
\* "state B {" inside the open block of A gives A a child named B, whether
\* or not a state named B exists elsewhere, and that child is the state the
\* block's lines attach to.
Cex_C26_DeclarationCreatesChild ==
    PlainDiagram =>
        LET ref == RefScan(parserLog[1])
            pool == stateMachine.pool
        IN  /\ \A d \in 1..Len(ref.declared) :
                   ref.declared[d][1] # "" =>
                       \E i \in 1..Len(pool) : /\ pool[i].name = ref.declared[d][2]
                                               /\ pool[i].parent = Some(ref.declared[d][1])
            /\ \A k \in 2..Len(stateStack) :
                   pool[stateStack[k]].parent = Some(pool[stateStack[k - 1]].name)


\* the number of parentheses open after s, read from position k with depth
\* open before it; -1 once a ')' has no earlier unmatched '('
RECURSIVE ParenDepth(_, _, _)
ParenDepth(s, k, depth) ==
    IF depth < 0 THEN -1
    ELSE IF k > Len(s) THEN depth
    ELSE ParenDepth(s, k + 1, IF CharAt(s, k) = "(" THEN depth + 1
                              ELSE IF CharAt(s, k) = ")" THEN depth - 1
                              ELSE depth)

BalancedParens(s) == ParenDepth(s, 1, 0) = 0

\* C27: validate reports 'Unbalanced parentheses' for a guard exactly when
\* the guard's parentheses are not balanced: some ')' has no earlier
\* unmatched '(' or some '(' is never closed.
Cex_C27_UnbalancedExactlyWhenReported ==
    (parserLog # <<>> /\ validated # None /\ raised = None) =>
        LET pool == validated[1].pool
        IN  \A i \in 1..Len(pool) : \A k \in 1..Len(pool[i].transitions) :
                LET guard == pool[i].transitions[k].guard
                IN  guard # None =>
                        (Messages("Unbalanced parentheses in guard: " \o guard[1]) # {}
                             <=> ~BalancedParens(guard[1]))


\* the text was parsed and the model is still as parse returned it
ParserOutput == parserLog # <<>> /\ resolveRuns = 0

\* C28: in the model a fresh parser returns, a state has an
\* initialTransition exactly if it has a child, and the transition targets
\* one of its direct children; on that model validate reports neither
\* 'must have an initial transition' nor 'has initial transition but no
\* child states'.
Thm_C28_InitialTransitionIffChildren ==
    /\ ParserOutput =>
           \A i \in 1..Len(stateMachine.pool) :
               LET state == stateMachine.pool[i]
               IN  /\ state.initialTransition # None <=> state.children # <<>>
                   /\ state.initialTransition # None =>
                          \E c \in 1..Len(state.children) :
                              stateMachine.pool[state.children[c]].name
                                  = state.initialTransition[1].target
    /\ (ParserOutput /\ validated # None) =>
           \A i \in 1..Len(stateMachine.pool) :
               LET name == stateMachine.pool[i].name
               IN  /\ Messages("Composite state '" \o name
                               \o "' must have an initial transition") = {}
                   /\ Messages("State '" \o name
                               \o "' has initial transition but no child states") = {}

\* a validated parser output with a composite state of two children
Wit_C28_ValidatedComposite ==
    /\ ParserOutput
    /\ validated # None
    /\ \E i \in 1..Len(stateMachine.pool) :
           /\ Len(stateMachine.pool[i].children) = 2
           /\ stateMachine.pool[i].initialTransition # None

\* the names of the states of the tree below the states idxs
RECURSIVE TreeNames(_, _)
TreeNames(pool, idxs) ==
    IF Len(idxs) = 0 THEN {}
    ELSE {pool[idxs[1]].name} \cup TreeNames(pool, pool[idxs[1]].children)
                              \cup TreeNames(pool, Tail(idxs))

\* C29: in the model a fresh parser returns, the target of every transition
\* of every state is the name of a state of the tree.
Thm_C29_NoDanglingTarget ==
    ParserOutput =>
        \A i \in 1..Len(stateMachine.pool) :
            \A k \in 1..Len(stateMachine.pool[i].transitions) :
                stateMachine.pool[i].transitions[k].target
                    \in TreeNames(stateMachine.pool, stateMachine.states)

\* a parse in which a transition line inside a block was the first mention
\* of its target
Wit_C29_TargetCreatedOnDemand ==
    /\ ParserOutput
    /\ \E i, j \in 1..Len(stateMachine.pool) :
           /\ i < j
           /\ stateMachine.pool[i].transitions # <<>>
           /\ stateMachine.pool[i].transitions[1].target = stateMachine.pool[j].name
           /\ stateMachine.pool[i].parent # None
           /\ stateMachine.pool[j].parent = stateMachine.pool[i].parent


\* C30: for a transition line S --> T : EVENT with a guard and/or an action,
\* the guard and the action preprocess stores under S_to_T_EVENT are the
\* guard and the action of the transition parse creates for the line.
Cex_C30_StagesAgreeOnGuardAndAction ==
    (ParserOutput /\ preLog # <<>> /\ preResult # None /\ ~preResult[1].raised) =>
        \A e \in 1..Len(metadata) :
            LET meta == metadata[e][2]
            IN  (meta.kind = "transition" /\ (meta.guard # None \/ meta.action # None)) =>
                    \E i \in 1..Len(stateMachine.pool) :
                        \E k \in 1..Len(stateMachine.pool[i].transitions) :
                            LET tr == stateMachine.pool[i].transitions[k]
                            IN  /\ stateMachine.pool[i].name = meta.source
                                /\ tr.target = meta.target
                                /\ tr.event = meta.event
                                /\ tr.guard = meta.guard
                                /\ tr.action = meta.action

====
